---- MODULE Spec2Model ----
(***************************************************************************)
(* A model of the PDF anonymization pipeline: the substitution engine      *)
(* (anonymizer.py), the session reversal (app_fixed.py, reversion.py) and  *)
(* the per-page detector (detection.py).  Texts are sequences of           *)
(* one-character strings; a dict is the sequence of its (key, value)       *)
(* pairs in insertion order.                                               *)
(***************************************************************************)
EXTENDS Integers, Sequences, FiniteSets, TLC

VARIABLES
    use_placeholders,         \* ImprovedAnonymizer.use_placeholders
    preserve_structure,       \* ImprovedAnonymizer.preserve_structure
    entity_counters,          \* ImprovedAnonymizer.entity_counters
    textos_paginas,           \* argument of the last anonymize_texts call
    itens_sensiveis,          \* argument of the last anonymize_texts call
    textos_anonimizados,      \* pages returned by the last anonymize_texts call
    mapeamento,               \* mapping returned by the last anonymize_texts call
    call_status,              \* "idle" | "returned" | "hung"
    input_origin,             \* "document" | "previous_output" | "next_document"
    texto_paginas_restaurado, \* pages rebuilt by the last session reversal
    rev_status,               \* outcome of the last session reversal
    texto_paginas_anon_carregado, \* pages read from the anonymized PDF (reversal from files)
    mapeamento_carregado,     \* mapping read from the mapping file
    finalizar_reversao_args,  \* the _finalizar_reversao call the reversal thread queued
    nlp,                      \* ImprovedPIIDetector.nlp is set (the model was loaded)
    det_status,               \* "constructing" | "ready" | "returned" | "raised"
    det_text,                 \* argument of detect_sensitive_data
    doc_ents,                 \* doc.ents of self.nlp(text)
    all_entities,             \* candidates handed to _remove_overlaps
    filtered_entities,        \* list returned by detect_sensitive_data
    original_pdf_path,        \* argument of save_mapping
    mapping,                  \* argument of save_mapping
    mapping_file_path,        \* path save_mapping wrote to
    mapping_file,             \* the file at mapping_file_path: its state and bytes
    file_fault,               \* what happened to the file between save and load
    load_result,              \* what load_mapping(mapping_file_path) gave back
    persist_status,           \* "idle" | "saved" | "save_raised_..." | "loaded"
    sessions,                 \* the calls of anonimizar_texto in flight, one per thread
    doc_pages,                \* argument of encontrar_dados_sensiveis
    doc_page_ents,            \* doc.ents of nlp(texto), page by page
    doc_detections,           \* what each page contributed, in the order it was recorded
    encontrados,              \* dict returned by encontrar_dados_sensiveis
    doc_status,               \* "idle" | "returned" | "raised_TypeError" | "raised_NameError"
    anonymized_text,          \* argument of deanonymize_text
    deanon_mapping,           \* argument of deanonymize_text (replacement -> original)
    reverted_text,            \* text returned by deanonymize_text
    deanon_status,            \* "idle" | "called" | "returned"
    conf_text,                \* ent.text of the span handed to _calculate_ner_confidence
    conf_score,               \* the confidence it returned, in hundredths; -1 before any call
    returned_pages_object,    \* the list anonymize_texts returned: "none" | "textos_paginas" | "textos_anonimizados"
    repl_text,                \* argument text of _perform_safe_replacement
    repl_original,            \* argument original
    repl_replacement,         \* argument replacement
    repl_result,              \* the text it returned
    repl_status,              \* "idle" or "returned"
    val_original_texts,       \* argument original_texts of validate_anonymization
    val_anonymized_texts,     \* argument anonymized_texts
    val_mapping,              \* argument mapping
    validation_results,       \* the dictionary it returned
    val_status,               \* "idle" or "returned"
    self_caminho_pdf,         \* PDFAnonymizerApp.caminho_pdf is set
    self_texto_paginas_anon,  \* PDFAnonymizerApp.texto_paginas_anon: the run that stored it (0: None) and whether it is non-empty
    self_mapeamento,          \* PDFAnonymizerApp.mapeamento, likewise
    validation_thread,        \* PDFAnonymizerApp.validation_thread: a worker, or 0 for None
    buttons,                  \* which of the five buttons are in state "normal"
    workers,                  \* the background threads that are running
    after_queue,              \* callbacks queued with root.after(0, ...), oldest first
    threads_started,          \* number of threading.Thread(...).start() so far
    app_event,                \* the handler, thread step or callback that ran last
    reverter_outcome          \* what the last reverter_sessao did

sessVars == <<use_placeholders, preserve_structure, entity_counters, textos_paginas,
              itens_sensiveis, textos_anonimizados, mapeamento, call_status,
              input_origin, texto_paginas_restaurado, rev_status, returned_pages_object>>

fileVars == <<texto_paginas_anon_carregado, mapeamento_carregado, finalizar_reversao_args>>

detVars == <<nlp, det_status, det_text, doc_ents, all_entities, filtered_entities>>

persistVars == <<original_pdf_path, mapping, mapping_file_path, mapping_file, file_fault,
                 load_result, persist_status>>

concVars == <<sessions>>

docVars == <<doc_pages, doc_page_ents, doc_detections, encontrados, doc_status>>

textVars == <<anonymized_text, deanon_mapping, reverted_text, deanon_status>>

confVars == <<conf_text, conf_score>>

replVars == <<repl_text, repl_original, repl_replacement, repl_result, repl_status>>

valVars == <<val_original_texts, val_anonymized_texts, val_mapping, validation_results,
              val_status>>

appVars == <<self_caminho_pdf, self_texto_paginas_anon, self_mapeamento, validation_thread,
              buttons, workers, after_queue, threads_started, app_event, reverter_outcome>>

otherVars == <<confVars, replVars, valVars, appVars>>

extVars == <<persistVars, concVars, docVars, textVars, otherVars>>

vars == <<sessVars, fileVars, detVars, extVars>>

----------------------------------------------------------------------------
(* Bounds of the model.                                                    *)

MaxPageLen == 3
MaxItems == 2

----------------------------------------------------------------------------
(* Characters and strings.                                                 *)

LowerLetters == {"a", "b", "c", "d", "e", "f", "g", "h", "i", "j", "k", "l", "m",
                 "n", "o", "p", "q", "r", "s", "t", "u", "v", "w", "x", "y", "z"}

UpperLetters == {"A", "B", "C", "D", "E", "F", "G", "H", "I", "J", "K", "L", "M",
                 "N", "O", "P", "Q", "R", "S", "T", "U", "V", "W", "X", "Y", "Z"}

DigitChars == {"0", "1", "2", "3", "4", "5", "6", "7", "8", "9"}

\* The regex class \w (str patterns): letters, digits and the underscore.
IsWordChar(c) == c \in LowerLetters \cup UpperLetters \cup DigitChars \cup {"_"}

\* The regex assertion \b at position p (before text[p], 1-based; p = Len+1 is the end).
Boundary(text, p) ==
    LET before == p > 1 /\ IsWordChar(text[p - 1])
        after  == p <= Len(text) /\ IsWordChar(text[p])
    IN  before # after

\* text[i .. i+Len(pat)-1] = pat
SubAt(text, i, pat) ==
    /\ i >= 1
    /\ i + Len(pat) - 1 <= Len(text)
    /\ \A j \in 1..Len(pat) : text[i + j - 1] = pat[j]

\* Python's `sub in text`
Contains(text, sub) == \E i \in 1..(Len(text) + 1) : SubAt(text, i, sub)

RECURSIVE ReSubFrom(_, _, _, _)
\* re.sub(r'\b' + re.escape(original) + r'\b', replacement, text), from position i:
\* leftmost non-overlapping matches, boundaries read on the text being scanned.
ReSubFrom(text, original, replacement, i) ==
    IF i > Len(text) THEN <<>>
    ELSE IF /\ Boundary(text, i)
            /\ SubAt(text, i, original)
            /\ Boundary(text, i + Len(original))
         THEN replacement \o ReSubFrom(text, original, replacement, i + Len(original))
         ELSE <<text[i]>> \o ReSubFrom(text, original, replacement, i + 1)

RECURSIVE StrReplaceFrom(_, _, _, _)
\* text.replace(original, replacement), from position i
StrReplaceFrom(text, original, replacement, i) ==
    IF i > Len(text) THEN <<>>
    ELSE IF SubAt(text, i, original)
         THEN replacement \o StrReplaceFrom(text, original, replacement, i + Len(original))
         ELSE <<text[i]>> \o StrReplaceFrom(text, original, replacement, i + 1)

StrReplace(text, original, replacement) == StrReplaceFrom(text, original, replacement, 1)

RECURSIVE Decimal(_)
\* str(n) for n >= 0
Decimal(n) ==
    LET d == <<"0", "1", "2", "3", "4", "5", "6", "7", "8", "9">>
    IN  IF n < 10 THEN <<d[n + 1]>> ELSE Decimal(n \div 10) \o <<d[(n % 10) + 1]>>

RECURSIVE JoinLines(_)
\* "\n".join(pages)
JoinLines(pages) ==
    IF pages = <<>> THEN <<>>
    ELSE IF Len(pages) = 1 THEN pages[1]
    ELSE pages[1] \o <<"\n">> \o JoinLines(Tail(pages))

RECURSIVE InsertByLenDesc(_, _)
InsertByLenDesc(sorted, x) ==
    IF sorted = <<>> THEN <<x>>
    ELSE IF Len(Head(sorted)) >= Len(x)
         THEN <<Head(sorted)>> \o InsertByLenDesc(Tail(sorted), x)
         ELSE <<x>> \o sorted

RECURSIVE SortedByLenDesc(_)
\* sorted(keys, key=len, reverse=True): stable, ties keep the insertion order
SortedByLenDesc(keys) ==
    IF keys = <<>> THEN <<>>
    ELSE InsertByLenDesc(SortedByLenDesc(SubSeq(keys, 1, Len(keys) - 1)), keys[Len(keys)])

\* dict helpers: a dict is a sequence of <<key, value>> with distinct keys
Keys(d) == [i \in 1..Len(d) |-> d[i][1]]
HasKey(d, k) == \E i \in 1..Len(d) : d[i][1] = k
Lookup(d, k) == d[CHOOSE i \in 1..Len(d) : d[i][1] = k][2]

DictPut_Front(d, k, v) == << <<k, v>> >> \o d

RECURSIVE DictPut(_, _, _)
\* d[k] = v: overwrite in place, or append a new key
DictPut(d, k, v) ==
    IF d = <<>> THEN << <<k, v>> >>
    ELSE IF Head(d)[1] = k THEN << <<k, v>> >> \o Tail(d)
    ELSE <<Head(d)>> \o DictPut(Tail(d), k, v)

----------------------------------------------------------------------------
(* config.py                                                               *)

\* ENTITY_TYPES.values()
EntityTypeValues == {"PESSOA", "ORGANIZACAO", "LOCAL", "CPF", "TELEFONE",
                     "EMAIL", "CEP", "RG", "CNPJ"}

\* The characters of a kind name.
KindChars(kind) ==
    CASE kind = "PESSOA"      -> <<"P", "E", "S", "S", "O", "A">>
      [] kind = "ORGANIZACAO" -> <<"O", "R", "G", "A", "N", "I", "Z", "A", "C", "A", "O">>
      [] kind = "LOCAL"       -> <<"L", "O", "C", "A", "L">>
      [] kind = "CPF"         -> <<"C", "P", "F">>
      [] kind = "TELEFONE"    -> <<"T", "E", "L", "E", "F", "O", "N", "E">>
      [] kind = "EMAIL"       -> <<"E", "M", "A", "I", "L">>
      [] kind = "CEP"         -> <<"C", "E", "P">>
      [] kind = "RG"          -> <<"R", "G">>
      [] kind = "CNPJ"        -> <<"C", "N", "P", "J">>
      [] kind = "PERSON"      -> <<"P", "E", "R", "S", "O", "N">>
      [] kind = "ORG"         -> <<"O", "R", "G">>
      [] kind = "LOC"         -> <<"L", "O", "C">>
      [] kind = "PHONE"       -> <<"P", "H", "O", "N", "E">>
      [] OTHER                -> <<"M", "I", "S", "C">>

----------------------------------------------------------------------------
(* ImprovedAnonymizer (anonymizer.py)                                      *)

\* _reset_counters
ResetCounters == [entity_type \in EntityTypeValues |-> 0]

SessionCounters_ResetOnce(counters) == IF counters = <<>> THEN ResetCounters ELSE counters

\* `self._reset_counters()` at the start of anonymize_texts: the counters the
\* session numbers from, whatever the instance held before
SessionCounters(counters) == ResetCounters

\* self.entity_counters.get(entity_type, 0)
CounterGet(counters, entity_type) ==
    IF entity_type \in DOMAIN counters THEN counters[entity_type] ELSE 0

CounterBump_Shared(counters, entity_type) ==
    LET top == IF DOMAIN counters = {} THEN 0
               ELSE CHOOSE n \in {counters[k] : k \in DOMAIN counters} :
                        \A k \in DOMAIN counters : counters[k] <= n
    IN  [k \in (DOMAIN counters) \cup {entity_type} |->
            IF k = entity_type THEN top + 1 ELSE counters[k]]

\* self.entity_counters[entity_type] = self.entity_counters.get(entity_type, 0) + 1
CounterBump(counters, entity_type) ==
    [k \in (DOMAIN counters) \cup {entity_type} |->
        IF k = entity_type THEN CounterGet(counters, entity_type) + 1 ELSE counters[k]]

\* placeholder_format.format(entity_type=..., counter=...): '[{entity_type}_{counter}]'
PlaceholderFormat(entity_type, counter) ==
    <<"[">> \o KindChars(entity_type) \o <<"_">> \o Decimal(counter) \o <<"]">>

\* What the Faker instance may hand back (an external generator): a few first
\* names, company words, city words and integers of random_int(1000, 9999).
FakerFirstNames == {<<"A", "n", "a">>, <<"R", "u", "i">>, <<"E", "v", "a">>}
FakerCompanyWords == {<<"S", "i", "l", "v", "a">>, <<"C", "o", "s", "t", "a">>}
FakerCityWords == {<<"R", "e", "c", "i", "f", "e">>, <<"N", "a", "t", "a", "l">>}
FakerInts == {1000, 9999}

\* _generate_fake_value: the values one call may return for a kind
GenerateFakeValue(entity_type) ==
    CASE entity_type \in {"PESSOA", "PERSON"} ->
            {<<"[", "N", "O", "M", "E", "_", "F", "I", "C", "T", "I", "C", "I", "O", "_">>
                \o n \o <<"]">> : n \in FakerFirstNames}
      [] entity_type \in {"ORGANIZACAO", "ORG"} ->
            {<<"[", "E", "M", "P", "R", "E", "S", "A", "_", "F", "I", "C", "T", "I", "C", "I", "A", "_">>
                \o w \o <<"]">> : w \in FakerCompanyWords}
      [] entity_type \in {"LOCAL", "LOC"} ->
            {<<"[", "L", "O", "C", "A", "L", "_", "F", "I", "C", "T", "I", "C", "I", "O", "_">>
                \o w \o <<"]">> : w \in FakerCityWords}
      [] entity_type = "EMAIL" ->
            {<<"e", "x", "e", "m", "p", "l", "o">> \o Decimal(n)
                \o <<"@", "e", "m", "a", "i", "l", "-", "f", "i", "c", "t", "i", "c", "i", "o", ".", "c", "o", "m">>
                : n \in FakerInts}
      [] entity_type \in {"TELEFONE", "PHONE"} ->
            {<<"(", "X", "X", ")", " ", "X", "X", "X", "X", "X", "-", "X", "X", "X", "X">>}
      [] entity_type = "CPF" ->
            {<<"X", "X", "X", ".", "X", "X", "X", ".", "X", "X", "X", "-", "X", "X">>}
      [] entity_type = "CNPJ" ->
            {<<"X", "X", ".", "X", "X", "X", ".", "X", "X", "X", "/", "X", "X", "X", "X", "-", "X", "X">>}
      [] entity_type = "CEP" ->
            {<<"X", "X", "X", "X", "X", "-", "X", "X", "X">>}
      [] entity_type = "RG" ->
            {<<"X", "X", ".", "X", "X", "X", ".", "X", "X", "X", "-", "X">>}
      [] OTHER ->
            {<<"[", "D", "A", "D", "O", "_", "A", "N", "O", "N", "I", "M", "I", "Z", "A", "D", "O", "]">>}

\* _get_replacement_value: the (value, counters afterwards) one call may yield
GetReplacementValue(placeholders, counters, entity_type) ==
    IF placeholders
    THEN LET bumped == CounterBump(counters, entity_type)
         IN  {[value |-> PlaceholderFormat(entity_type, bumped[entity_type]),
               counters |-> bumped]}
    ELSE {[value |-> v, counters |-> counters] : v \in GenerateFakeValue(entity_type)}

RetryUntilUnused_NoRetry(candidates, valores_usados) == candidates

\* `while replacement in valores_usados: replacement = ...`: the calls the loop can
\* end with; none when every value the generator returns is already used.
RetryUntilUnused(candidates, valores_usados) ==
    {c \in candidates : c.value \notin valores_usados}

RECURSIVE MappingOutcomes(_, _, _, _, _, _)
\* The loop over itens_sensiveis.items() from item i on: every way it can end,
\* [mapeamento, counters, hung]; hung when the uniqueness loop never ends.
MappingOutcomes(placeholders, itens, i, map, usados, counters) ==
    IF i > Len(itens)
    THEN {[mapeamento |-> map, counters |-> counters, hung |-> FALSE]}
    ELSE LET original == itens[i][1]
             categoria == itens[i][2]
         IN  IF HasKey(map, original)
             THEN MappingOutcomes(placeholders, itens, i + 1, map, usados, counters)
             ELSE LET first == GetReplacementValue(placeholders, counters, categoria)
                      final == IF placeholders THEN first
                               ELSE RetryUntilUnused(first, usados)
                  IN  IF final = {}
                      THEN {[mapeamento |-> map, counters |-> counters, hung |-> TRUE]}
                      ELSE UNION {MappingOutcomes(placeholders, itens, i + 1,
                                                  DictPut(map, original, c.value),
                                                  IF placeholders THEN usados
                                                  ELSE usados \cup {c.value},
                                                  c.counters) : c \in final}

\* _validate_replacement: re.search(r'\w' + repl + r'|\b' + repl + r'\w', text_after)
\* finds nothing (check_token_boundaries is True in config.py)
ValidateReplacement(replacement, text_after) ==
    ~ \E i \in 1..Len(text_after) :
        \/ /\ IsWordChar(text_after[i])
           /\ SubAt(text_after, i + 1, replacement)
        \/ /\ Boundary(text_after, i)
           /\ SubAt(text_after, i, replacement)
           /\ i + Len(replacement) <= Len(text_after)
           /\ IsWordChar(text_after[i + Len(replacement)])

\* _perform_safe_replacement
PerformSafeReplacement(text, original, replacement) ==
    LET new_text == ReSubFrom(text, original, replacement, 1)
    IN  IF ~ ValidateReplacement(replacement, new_text)
        THEN StrReplace(text, original, replacement)
        ELSE new_text

\* chaves_sensiveis = sorted(mapeamento.keys(), key=len, reverse=True)
SortKeys(keys) == SortedByLenDesc(keys)

RECURSIVE RewritePage(_, _, _, _)
\* the inner loop `for original in chaves_sensiveis` on one page
RewritePage(texto_anon, chaves, map, preserve) ==
    IF chaves = <<>> THEN texto_anon
    ELSE LET original == Head(chaves)
             replacement == Lookup(map, original)
         IN  RewritePage(IF preserve
                         THEN PerformSafeReplacement(texto_anon, original, replacement)
                         ELSE StrReplace(texto_anon, original, replacement),
                         Tail(chaves), map, preserve)

\* the loop `for texto in textos_paginas`
RewritePages(pages, map, preserve) ==
    [p \in 1..Len(pages) |-> RewritePage(pages[p], SortKeys(Keys(map)), map, preserve)]

EarlyReturn_Dropped(pages, itens) == FALSE

\* `if not textos_paginas or not itens_sensiveis`
EarlyReturn(pages, itens) == pages = <<>> \/ itens = <<>>

----------------------------------------------------------------------------
(* Session reversal (app_fixed.py reverter_sessao, _processar_reversao_thread) *)

RECURSIVE InverseMapping(_, _)
\* {falso: orig for orig, falso in mapeamento.items()}: a later original with the
\* same replacement overwrites the earlier one
InverseMapping(map, acc) ==
    IF map = <<>> THEN acc
    ELSE InverseMapping(Tail(map), DictPut(acc, Head(map)[2], Head(map)[1]))

RECURSIVE RevertPage(_, _, _)
RevertPage(texto, chaves_falsas, inverso) ==
    IF chaves_falsas = <<>> THEN texto
    ELSE RevertPage(StrReplace(texto, Head(chaves_falsas), Lookup(inverso, Head(chaves_falsas))),
                    Tail(chaves_falsas), inverso)

PagesAfterReversal_InPlace(pages, restaurado) == restaurado

\* the list the reversal loop read, after the loop: every restored page went
\* into the new list texto_paginas_restaurado
PagesAfterReversal(pages, restaurado) == pages

\* the reversal loop shared by reverter_sessao and _processar_reversao_thread
RevertPages(pages, map) ==
    LET mapeamento_inverso == InverseMapping(map, <<>>)
        chaves_falsas == SortedByLenDesc(Keys(mapeamento_inverso))
    IN  [p \in 1..Len(pages) |-> RevertPage(pages[p], chaves_falsas, mapeamento_inverso)]

----------------------------------------------------------------------------
(* Compiled regular expressions (re): a pattern is a sequence of items, a  *)
(* word boundary, a greedy repetition of a character class, or an optional *)
(* non-capturing group.                                                    *)

WordBoundary == [kind |-> "wb", set |-> {}, min |-> 0, max |-> 0, inner |-> <<>>]

\* [set]{min,max}, greedy; max = -1 for an open repetition such as + or {2,}
Cls(set, min, max) == [kind |-> "cls", set |-> set, min |-> min, max |-> max, inner |-> <<>>]

\* one literal character, and an optional one (c?)
Lit(c) == Cls({c}, 1, 1)
OptLit(c) == Cls({c}, 0, 1)

\* (?: inner )?
Opt(inner) == [kind |-> "opt", set |-> {}, min |-> 0, max |-> 1, inner |-> inner]

\* the regex class \s among the characters of the model
WhitespaceChars == {" ", "\t", "\n"}

RECURSIVE RunLen(_, _, _)
\* how many characters from pos on belong to set
RunLen(text, pos, set) ==
    IF pos <= Len(text) /\ text[pos] \in set
    THEN 1 + RunLen(text, pos + 1, set)
    ELSE 0

RECURSIVE MatchItems(_, _, _)
RECURSIVE MatchCls(_, _, _, _)
\* pattern.match at pos: the position after the match the backtracking search
\* finds first, 0 when there is none
MatchItems(items, text, pos) ==
    IF items = <<>> THEN pos
    ELSE LET it == Head(items)
             rest == Tail(items)
         IN  CASE it.kind = "wb" ->
                    IF Boundary(text, pos) THEN MatchItems(rest, text, pos) ELSE 0
               [] it.kind = "opt" ->
                    LET taken == MatchItems(it.inner \o rest, text, pos)
                    IN  IF taken # 0 THEN taken ELSE MatchItems(rest, text, pos)
               [] OTHER ->
                    LET run == RunLen(text, pos, it.set)
                    IN  MatchCls(items, text, pos,
                                 IF it.max < 0 \/ run < it.max THEN run ELSE it.max)

\* the repetition at the head of items, tried with n characters, then fewer
MatchCls(items, text, pos, n) ==
    IF n < Head(items).min THEN 0
    ELSE LET found == MatchItems(Tail(items), text, pos + n)
         IN  IF found # 0 THEN found ELSE MatchCls(items, text, pos, n - 1)

RECURSIVE FindIter(_, _, _)
\* pattern.finditer(text) from pos: the (start, end) of the leftmost
\* non-overlapping matches, 0-based as match.start() and match.end()
FindIter(items, text, pos) ==
    IF pos > Len(text) + 1 THEN <<>>
    ELSE LET found == MatchItems(items, text, pos)
         IN  IF found = 0 THEN FindIter(items, text, pos + 1)
             ELSE <<[start |-> pos - 1, end |-> found - 1]>>
                  \o FindIter(items, text, IF found > pos THEN found ELSE pos + 1)

\* REGEX_PATTERNS (config.py), in dict order
Digits(min, max) == Cls(DigitChars, min, max)

PatternCpf ==
    <<WordBoundary, Digits(3, 3), OptLit("."), Digits(3, 3), OptLit("."), Digits(3, 3),
      OptLit("-"), Digits(2, 2), WordBoundary>>

PatternPhone ==
    <<WordBoundary,
      Opt(<<OptLit("("), Digits(2, 2), OptLit(")"), Cls(WhitespaceChars, 0, 1)>>),
      Opt(<<Lit("9"), Cls(WhitespaceChars, 0, 1)>>),
      Digits(4, 5), OptLit("-"), Digits(4, 4), WordBoundary>>

PatternEmail ==
    <<WordBoundary,
      Cls(LowerLetters \cup UpperLetters \cup DigitChars \cup {".", "_", "%", "+", "-"}, 1, -1),
      Lit("@"),
      Cls(LowerLetters \cup UpperLetters \cup DigitChars \cup {".", "-"}, 1, -1),
      Lit("."),
      Cls(LowerLetters \cup UpperLetters, 2, -1),
      WordBoundary>>

PatternCep == <<WordBoundary, Digits(5, 5), OptLit("-"), Digits(3, 3), WordBoundary>>

PatternRg ==
    <<WordBoundary, Digits(1, 2), OptLit("."), Digits(3, 3), OptLit("."), Digits(3, 3),
      OptLit("-"), Cls(DigitChars \cup {"X", "x"}, 1, 1), WordBoundary>>

PatternCnpj ==
    <<WordBoundary, Digits(2, 2), OptLit("."), Digits(3, 3), OptLit("."), Digits(3, 3),
      OptLit("/"), Digits(4, 4), OptLit("-"), Digits(2, 2), WordBoundary>>

\* self.regex_patterns.items(): (pattern_name.upper(), compiled pattern)
RegexPatterns ==
    << <<"CPF", PatternCpf>>, <<"PHONE", PatternPhone>>, <<"EMAIL", PatternEmail>>,
       <<"CEP", PatternCep>>, <<"RG", PatternRg>>, <<"CNPJ", PatternCnpj>> >>

----------------------------------------------------------------------------
(* ImprovedPIIDetector (detection.py)                                      *)

AlphaLower == <<"a", "b", "c", "d", "e", "f", "g", "h", "i", "j", "k", "l", "m",
                "n", "o", "p", "q", "r", "s", "t", "u", "v", "w", "x", "y", "z">>

AlphaUpper == <<"A", "B", "C", "D", "E", "F", "G", "H", "I", "J", "K", "L", "M",
                "N", "O", "P", "Q", "R", "S", "T", "U", "V", "W", "X", "Y", "Z">>

\* str.lower()
Lower(s) ==
    [i \in 1..Len(s) |->
        IF \E k \in DOMAIN AlphaUpper : AlphaUpper[k] = s[i]
        THEN AlphaLower[CHOOSE k \in DOMAIN AlphaUpper : AlphaUpper[k] = s[i]]
        ELSE s[i]]

RECURSIVE LStrip(_)
LStrip(s) == IF s # <<>> /\ Head(s) \in WhitespaceChars THEN LStrip(Tail(s)) ELSE s

RECURSIVE RStrip(_)
RStrip(s) ==
    IF s # <<>> /\ s[Len(s)] \in WhitespaceChars THEN RStrip(SubSeq(s, 1, Len(s) - 1)) ELSE s

\* str.strip()
Strip(s) == RStrip(LStrip(s))

\* STOP_TERMS (config.py): the terms the texts of the model can spell
StopTerms == {<<"d", "e">>, <<"d", "a">>, <<"d", "a", "t", "a">>}

IsStopTerm_Never(s) == FALSE

\* _is_stop_term: text.lower().strip() in self.stop_terms
IsStopTerm(s) == Strip(Lower(s)) \in StopTerms

\* VALIDATION_CONFIG['min_confidence_threshold'] = 0.5, in hundredths
min_confidence_threshold == 50

\* the confidence 1.0 of a regex match and of an ent with no confidence attribute
FullConfidence == 100

ValidateEntity_NoThreshold(s, entity_type, confidence) == ~ IsStopTerm(s)

\* _validate_entity
ValidateEntity(s, entity_type, confidence) ==
    IF IsStopTerm(s) THEN FALSE
    ELSE IF confidence < min_confidence_threshold THEN FALSE
    ELSE TRUE

\* the label mapping of _extract_entities_with_spacy; "None" when no branch applies
EntityTypeOfLabel(label) ==
    CASE label \in {"PER", "PERSON"} -> "PESSOA"
      [] label = "ORG" -> "ORGANIZACAO"
      [] label \in {"LOC", "GPE"} -> "LOCAL"
      [] label \in {"CPF", "TELEFONE", "EMAIL", "CEP", "RG", "CNPJ"} -> label
      [] OTHER -> "None"

\* getattr(ent, 'confidence', 1.0)
EntConfidence(ent) == IF ent.has_confidence THEN ent.confidence ELSE FullConfidence

\* ent.text
EntText(s, ent) == SubSeq(s, ent.start + 1, ent.end)

RECURSIVE SpacyEntitiesFrom(_, _, _)
\* the loop `for ent in doc.ents` from ent i on
SpacyEntitiesFrom(s, ents, i) ==
    IF i > Len(ents) THEN <<>>
    ELSE LET ent == ents[i]
             entity_type == EntityTypeOfLabel(ent.label)
         IN  (IF /\ entity_type # "None"
                 /\ Strip(EntText(s, ent)) # <<>>
                 /\ ValidateEntity(EntText(s, ent), entity_type, EntConfidence(ent))
              THEN <<[text |-> EntText(s, ent), type |-> entity_type, start |-> ent.start,
                      end |-> ent.end, confidence |-> EntConfidence(ent)]>>
              ELSE <<>>)
             \o SpacyEntitiesFrom(s, ents, i + 1)

SpacyGuard_Dropped(loaded) == FALSE

\* `if not self.nlp: return []`
SpacyGuard(loaded) == ~ loaded

\* `doc = self.nlp(text)` is reached with self.nlp = None and raises TypeError
NlpCallRaises(loaded) == ~ SpacyGuard(loaded) /\ ~ loaded

\* _extract_entities_with_spacy; ents is what self.nlp(text).ents holds
ExtractEntitiesWithSpacy(loaded, s, ents) ==
    IF SpacyGuard(loaded) THEN <<>> ELSE SpacyEntitiesFrom(s, ents, 1)

RECURSIVE RegexMatchesFrom(_, _, _, _)
\* the loop `for match in pattern.finditer(text)` from match i on
RegexMatchesFrom(s, entity_type, matches, i) ==
    IF i > Len(matches) THEN <<>>
    ELSE LET matched_text == SubSeq(s, matches[i].start + 1, matches[i].end)
         IN  (IF ValidateEntity(matched_text, entity_type, FullConfidence)
              THEN <<[text |-> matched_text, type |-> entity_type, start |-> matches[i].start,
                      end |-> matches[i].end, confidence |-> FullConfidence]>>
              ELSE <<>>)
             \o RegexMatchesFrom(s, entity_type, matches, i + 1)

RECURSIVE RegexEntitiesFrom(_, _)
\* the loop `for pattern_name, pattern in self.regex_patterns.items()` from pattern k on
RegexEntitiesFrom(s, k) ==
    IF k > Len(RegexPatterns) THEN <<>>
    ELSE RegexMatchesFrom(s, RegexPatterns[k][1], FindIter(RegexPatterns[k][2], s, 1), 1)
         \o RegexEntitiesFrom(s, k + 1)

\* _extract_entities_with_regex
ExtractEntitiesWithRegex(s) == RegexEntitiesFrom(s, 1)

SortKeyLess_StartOnly(a, b) == a.start < b.start

\* the sort key (start, -confidence, -(end - start)) of a is below that of b
SortKeyLess(a, b) ==
    \/ a.start < b.start
    \/ /\ a.start = b.start
       /\ \/ a.confidence > b.confidence
          \/ /\ a.confidence = b.confidence
             /\ (a.end - a.start) > (b.end - b.start)

RECURSIVE InsertEntity(_, _)
\* x placed after every entity whose key is not above its own
InsertEntity(sorted, x) ==
    IF sorted = <<>> THEN <<x>>
    ELSE IF SortKeyLess(x, Head(sorted)) THEN <<x>> \o sorted
    ELSE <<Head(sorted)>> \o InsertEntity(Tail(sorted), x)

RECURSIVE SortEntities(_)
\* entities.sort(key=...): stable
SortEntities(entities) ==
    IF entities = <<>> THEN <<>>
    ELSE InsertEntity(SortEntities(SubSeq(entities, 1, Len(entities) - 1)),
                      entities[Len(entities)])

KeepEntity_Always(entity, last_end) == TRUE

\* `if entity['start'] >= last_end`
KeepEntity(entity, last_end) == entity.start >= last_end

RECURSIVE FilterFrom(_, _, _)
\* the scan of _remove_overlaps from entity i on
FilterFrom(sorted, i, last_end) ==
    IF i > Len(sorted) THEN <<>>
    ELSE IF KeepEntity(sorted[i], last_end)
         THEN <<sorted[i]>> \o FilterFrom(sorted, i + 1, sorted[i].end)
         ELSE FilterFrom(sorted, i + 1, last_end)

\* _remove_overlaps
RemoveOverlaps(entities) ==
    IF entities = <<>> THEN entities
    ELSE FilterFrom(SortEntities(entities), 1, -1)

\* `if not text or not text.strip()`
BlankText(s) == s = <<>> \/ Strip(s) = <<>>

\* the candidates detect_sensitive_data hands to _remove_overlaps
AllEntities(loaded, s, ents) ==
    ExtractEntitiesWithSpacy(loaded, s, ents) \o ExtractEntitiesWithRegex(s)

\* detect_sensitive_data
DetectSensitiveData(loaded, s, ents) ==
    IF BlankText(s) THEN <<>> ELSE RemoveOverlaps(AllEntities(loaded, s, ents))

----------------------------------------------------------------------------
(* EnhancedValidator (enhanced_validator.py)                               *)

\* re.sub(r'[^\d]', '', cpf)
DigitsOnly(s) == SelectSeq(s, LAMBDA c : c \in DigitChars)

\* int(d)
DigitValue(c) == CHOOSE n \in 0..9 : Decimal(n) = <<c>>

RECURSIVE WeightedSum(_, _, _)
\* sum(digits[i] * (top - i) for i in range(n)), digits 1-based here
WeightedSum(digits, top, n) ==
    IF n = 0 THEN 0
    ELSE WeightedSum(digits, top, n - 1) + digits[n] * (top - (n - 1))

\* (sum * 10) % 11, with 10 read as 0
CheckDigit(sum) == IF (sum * 10) % 11 = 10 THEN 0 ELSE (sum * 10) % 11

\* _validate_cpf_checksum
ValidateCpfChecksum(cpf) ==
    LET cpf_digits == DigitsOnly(cpf)
        digits == [i \in 1..Len(cpf_digits) |-> DigitValue(cpf_digits[i])]
    IN  IF Len(cpf_digits) # 11 THEN FALSE
        ELSE IF \A i \in 1..11 : cpf_digits[i] = cpf_digits[1] THEN FALSE
        ELSE /\ digits[10] = CheckDigit(WeightedSum(digits, 10, 9))
             /\ digits[11] = CheckDigit(WeightedSum(digits, 11, 10))

----------------------------------------------------------------------------
(* Inputs of the substitution engine.                                      *)

\* Page characters: a word character and a non-word character.
Alphabet == {"a", " "}

StrSeqs(chars, maxlen) == UNION {[1..n -> chars] : n \in 0..maxlen}

Pages == StrSeqs(Alphabet, MaxPageLen)

\* textos_paginas: no page, or the one page of a document
PageLists == {<<>>} \cup {<<p>> : p \in Pages}

\* Detected strings: a word, a longer word holding it, a separator, a string
\* that begins with a non-word character and holds the word, and a string of
\* the placeholder format (the recognizer may mark any span of a page).
KeyUniverse == {<<"a">>, <<" ">>, <<"a", "a">>, <<" ", "a">>, PlaceholderFormat("CPF", 1)}

\* One kind registered in ENTITY_TYPES and one that is not (the legacy label).
Kinds == {"CPF", "PERSON"}

\* itens_sensiveis: a dict of at most MaxItems detected strings, each with its kind
ItemDicts ==
    {d \in UNION {[1..n -> KeyUniverse \X Kinds] : n \in 0..MaxItems} :
        \A i, j \in 1..Len(d) : i # j => d[i][1] # d[j][1]}

\* The threads that call anonimizar_texto.
Threads == {1, 2}

\* a thread that has not called yet; pc is its position in anonymize_texts
IdleSession ==
    [pc |-> "idle", textos_paginas |-> <<>>, itens_sensiveis |-> <<>>, i |-> 0, read |-> 0,
     mapeamento |-> <<>>, textos_anonimizados |-> <<>>]

----------------------------------------------------------------------------
(* The session: one ImprovedAnonymizer and the pages it is handed.         *)

Init ==
    /\ use_placeholders \in BOOLEAN
    /\ preserve_structure \in BOOLEAN
    /\ entity_counters = <<>>
    /\ textos_paginas = <<>>
    /\ itens_sensiveis = <<>>
    /\ textos_anonimizados = <<>>
    /\ mapeamento = <<>>
    /\ call_status = "idle"
    /\ input_origin = "document"
    /\ texto_paginas_restaurado = <<>>
    /\ rev_status = "none"
    /\ texto_paginas_anon_carregado = <<>>
    /\ mapeamento_carregado = <<>>
    /\ finalizar_reversao_args = <<>>
    /\ nlp = FALSE
    /\ det_status = "constructing"
    /\ det_text = <<>>
    /\ doc_ents = <<>>
    /\ all_entities = <<>>
    /\ filtered_entities = <<>>
    /\ original_pdf_path = <<>>
    /\ mapping = <<>>
    /\ mapping_file_path = <<>>
    /\ mapping_file = [state |-> "missing", content |-> <<>>]
    /\ file_fault = "none"
    /\ load_result = [kind |-> "not_called", value |-> <<>>, printed |-> "nothing"]
    /\ persist_status = "idle"
    /\ sessions = [t \in Threads |-> IdleSession]
    /\ doc_pages = <<>>
    /\ doc_page_ents = <<>>
    /\ doc_detections = <<>>
    /\ encontrados = <<>>
    /\ doc_status = "idle"
    /\ anonymized_text = <<>>
    /\ deanon_mapping = <<>>
    /\ reverted_text = <<>>
    /\ deanon_status = "idle"
    /\ conf_text = <<>>
    /\ conf_score = -1
    /\ returned_pages_object = "none"
    /\ repl_text = <<>>
    /\ repl_original = <<>>
    /\ repl_replacement = <<>>
    /\ repl_result = <<>>
    /\ repl_status = "idle"
    /\ val_original_texts = <<>>
    /\ val_anonymized_texts = <<>>
    /\ val_mapping = <<>>
    /\ validation_results = [errors |-> <<>>, warnings |-> 0, integrity_check |-> TRUE]
    /\ val_status = "idle"
    /\ self_caminho_pdf = FALSE
    /\ self_texto_paginas_anon = [run |-> 0, filled |-> FALSE]
    /\ self_mapeamento = [run |-> 0, filled |-> FALSE]
    /\ validation_thread = 0
    /\ buttons = [b \in {"btn_carregar", "btn_anon", "btn_validar", "btn_reverter_sessao", "btn_carregar_e_reverter"} |-> b \in {"btn_carregar", "btn_carregar_e_reverter"}]
    /\ workers = {}
    /\ after_queue = <<>>
    /\ threads_started = 0
    /\ app_event = "init"
    /\ reverter_outcome = "none"

\* `return textos_paginas, {}`: the early return hands back its argument, the
\* caller's list object
ReturnedWithoutItems == "textos_paginas"

\* anonymize_texts(pages, itens) on the session's anonymizer
AnonymizeTexts(pages, itens) ==
    /\ call_status # "hung"
    /\ textos_paginas' = pages
    /\ itens_sensiveis' = itens
    /\ texto_paginas_restaurado' = <<>>
    /\ rev_status' = "none"
    /\ UNCHANGED <<use_placeholders, preserve_structure, fileVars, detVars, extVars>>
    /\ IF EarlyReturn(pages, itens)
       THEN /\ textos_anonimizados' = pages
            /\ mapeamento' = <<>>
            /\ call_status' = "returned"
            /\ returned_pages_object' = ReturnedWithoutItems
            /\ UNCHANGED entity_counters
       ELSE \E out \in MappingOutcomes(use_placeholders, itens, 1, <<>>, {},
                                       SessionCounters(entity_counters)) :
            /\ entity_counters' = out.counters
            /\ IF out.hung
               THEN /\ call_status' = "hung"
                    /\ textos_anonimizados' = <<>>
                    /\ mapeamento' = <<>>
                    /\ returned_pages_object' = "none"
               ELSE /\ call_status' = "returned"
                    /\ textos_anonimizados' = RewritePages(pages, out.mapeamento, preserve_structure)
                    /\ mapeamento' = out.mapeamento
                    /\ returned_pages_object' = "textos_anonimizados"

\* A document is loaded and anonymized by a freshly constructed anonymizer.
AnonimizarDocumento ==
    /\ call_status = "idle"
    /\ \E pages \in PageLists, itens \in ItemDicts : AnonymizeTexts(pages, itens)
    /\ input_origin' = "document"

\* The pages a session produced are anonymized again and nothing new is found.
AnonimizarSaidaSemItens ==
    /\ call_status = "returned"
    /\ input_origin = "document"
    /\ AnonymizeTexts(textos_anonimizados, <<>>)
    /\ input_origin' = "previous_output"

\* The pages a session produced are anonymized again with newly found items.
AnonimizarSaida ==
    /\ call_status = "returned"
    /\ input_origin = "document"
    /\ \E itens \in ItemDicts : AnonymizeTexts(textos_anonimizados, itens)
    /\ input_origin' = "previous_output"

\* reverter_sessao
ReverterSessao ==
    /\ call_status = "returned"
    /\ rev_status = "none"
    /\ IF textos_anonimizados = <<>> \/ mapeamento = <<>>
       THEN /\ rev_status' = "nothing_to_revert"
            /\ texto_paginas_restaurado' = <<>>
            /\ UNCHANGED textos_anonimizados
       ELSE LET restaurado == RevertPages(textos_anonimizados, mapeamento)
            IN  /\ texto_paginas_restaurado' = restaurado
                /\ textos_anonimizados' = PagesAfterReversal(textos_anonimizados, restaurado)
                /\ rev_status' = IF /\ textos_paginas # <<>>
                                    /\ JoinLines(restaurado) = JoinLines(textos_paginas)
                                 THEN "restored_exactly"
                                 ELSE "restored_for_view"
    /\ UNCHANGED <<use_placeholders, preserve_structure, entity_counters, textos_paginas,
                   itens_sensiveis, mapeamento, call_status, returned_pages_object,
                   input_origin, fileVars,
                   detVars, extVars>>

Next ==
    \/ AnonimizarDocumento
    \/ AnonimizarSaidaSemItens
    \/ ReverterSessao

Spec == Init /\ [][Next]_vars

\* The shipped configuration (config.py: use_placeholders and preserve_structure
\* are True), with sessions that anonymize their own output again.
InitReuse ==
    /\ Init
    /\ use_placeholders = TRUE
    /\ preserve_structure = TRUE

NextReuse ==
    \/ AnonimizarDocumento
    \/ AnonimizarSaida
    \/ ReverterSessao

SpecReuse == InitReuse /\ [][NextReuse]_vars

\* The pages of the documents of a sequence: the mapping of a call reads the
\* pages only to see whether there are any.
SeqPageLists == {<<>>, << <<"a">> >>, << <<"a", " ">>, <<"a">> >>}

\* The items of the documents of a sequence: the numbering of a call reads
\* the kinds and the order of the items, and of the strings only whether
\* they repeat.
SeqItemDicts ==
    {d \in ItemDicts : \A i \in 1..Len(d) : d[i][1] \in {<<"a">>, <<" ">>, <<"a", "a">>}}

\* One more document is anonymized by the anonymizer of the session (the module
\* keeps one instance for every call of anonimizar_texto).
AnonimizarProximoDocumento ==
    /\ call_status \in {"idle", "returned"}
    /\ \E pages \in SeqPageLists, itens \in SeqItemDicts : AnonymizeTexts(pages, itens)
    /\ input_origin' = IF call_status = "idle" THEN "document" ELSE "next_document"

NextSeq == AnonimizarProximoDocumento

\* Placeholder mode, one anonymizer, one document after the other.
SpecSeq == InitReuse /\ [][NextSeq]_vars

----------------------------------------------------------------------------
(* Reversal from files (app_fixed.py carregar_e_reverter).                 *)

\* Originals and replacements a mapping file may hold.
LoadedOriginals == {<<"a">>, <<"b">>, <<"a", "b">>}

LoadedReplacements == {PlaceholderFormat("PESSOA", 1), PlaceholderFormat("PESSOA", 2)}

\* load_mapping: the dict of a mapping file (original -> replacement; a JSON
\* object may repeat a value), empty also for a file that could not be read
LoadedMappings ==
    {d \in UNION {[1..n -> LoadedOriginals \X LoadedReplacements] : n \in 0..MaxItems} :
        \A i, j \in 1..Len(d) : i # j => d[i][1] # d[j][1]}

\* Pieces of the text of an anonymized page.
PageChunks == LoadedReplacements \cup {<<"a">>, <<" ">>}

MaxChunks == 2

RECURSIVE Flatten(_)
Flatten(chunks) == IF chunks = <<>> THEN <<>> ELSE Head(chunks) \o Flatten(Tail(chunks))

\* extrair_texto: no page, or the one page of the anonymized PDF
LoadedPageLists ==
    {<<>>} \cup {<<Flatten(c)>> : c \in UNION {[1..n -> PageChunks] : n \in 1..MaxChunks}}

\* _processar_reversao_thread when extrair_texto returns pages and load_mapping
\* returns map: it reverts and queues _finalizar_reversao
ProcessarReversaoThreadCom(pages, map) ==
    /\ texto_paginas_anon_carregado' = pages
    /\ mapeamento_carregado' = map
    /\ finalizar_reversao_args' =
           IF pages = <<>> \/ map = <<>>
           THEN <<[texto_paginas_anon_carregado |-> <<>>,
                   texto_paginas_restaurado |-> <<>>,
                   mapeamento_carregado |-> <<>>,
                   error_msg |-> "load_error"]>>
           ELSE LET restaurado == RevertPages(pages, map)
                IN  <<[texto_paginas_anon_carregado |-> PagesAfterReversal(pages, restaurado),
                       texto_paginas_restaurado |-> restaurado,
                       mapeamento_carregado |-> map,
                       error_msg |-> "None"]>>
    /\ UNCHANGED <<sessVars, detVars, extVars>>

\* _processar_reversao_thread: loads both files, reverts, and queues _finalizar_reversao
ProcessarReversaoThread ==
    /\ finalizar_reversao_args = <<>>
    /\ \E pages \in LoadedPageLists, map \in LoadedMappings :
        ProcessarReversaoThreadCom(pages, map)

InitRev == InitReuse

NextRev == ProcessarReversaoThread

SpecRev == InitRev /\ [][NextRev]_vars

----------------------------------------------------------------------------
(* Detection of one page (detection.py detect_sensitive_data).             *)

TokDe == <<"d", "e">>
TokDeCap == <<"D", "e">>
TokAna == <<"A", "n", "a">>
TokCpfValid == <<"1", "2", "3", ".", "4", "5", "6", ".", "7", "8", "9", "-", "0", "9">>
TokCpfInvalid == <<"1", "2", "3", ".", "4", "5", "6", ".", "7", "8", "9", "-", "0", "0">>
TokDigits11 == <<"1", "2", "3", "4", "5", "6", "7", "8", "9", "0", "9">>
TokDigits8 == <<"1", "2", "3", "4", "5", "6", "7", "8">>
TokDdd == <<"1", "1">>
TokPhone == <<"9", "1", "2", "3", "4", "-", "5", "6", "7", "8">>

\* The texts of a page, as their whitespace-separated tokens.
DetTokenLists ==
    { <<>>,
      <<TokDe>>,
      <<TokDeCap, TokAna>>,
      <<TokAna, TokCpfValid>>,
      <<TokAna, TokCpfInvalid>>,
      <<TokDigits11>>,
      <<TokDigits8>>,
      <<TokAna, TokDdd, TokPhone>>,
      <<TokDe, TokAna, TokDe>> }

RECURSIVE JoinTokens(_)
\* " ".join(tokens)
JoinTokens(tokens) ==
    IF tokens = <<>> THEN <<>>
    ELSE IF Len(tokens) = 1 THEN tokens[1]
    ELSE tokens[1] \o <<" ">> \o JoinTokens(Tail(tokens))

\* a page of blanks only, and the texts of the token lists
DetTexts == {<<" ">>} \cup {JoinTokens(t) : t \in DetTokenLists}

MaxEnts == 2

\* Labels the pipeline (NER and EntityRuler) may give a span.
NerLabels == {"PER", "MISC", "CPF"}

\* The confidence attribute of an ent: absent (as on a spaCy Span), or a value
\* in hundredths
NerConfidences ==
    {[has_confidence |-> FALSE, confidence |-> 0]}
        \cup {[has_confidence |-> TRUE, confidence |-> c] : c \in {30, 50, 90}}

\* 0-based offset of token i in JoinTokens(tokens)
TokenStart(tokens, i) == Len(JoinTokens(SubSeq(tokens, 1, i - 1))) + (IF i > 1 THEN 1 ELSE 0)

\* token ranges (i, j), i <= j
TokenRanges(tokens) == {r \in (1..Len(tokens)) \X (1..Len(tokens)) : r[1] <= r[2]}

RECURSIVE EntsFromRanges(_, _, _)
\* the ents of the chosen ranges, in document order
EntsFromRanges(tokens, ranges, choice) ==
    IF ranges = {} THEN <<>>
    ELSE LET r == CHOOSE x \in ranges : \A y \in ranges : x[1] <= y[1]
         IN  <<[start |-> TokenStart(tokens, r[1]),
                end |-> TokenStart(tokens, r[2]) + Len(tokens[r[2]]),
                label |-> choice[r][1],
                has_confidence |-> choice[r][2].has_confidence,
                confidence |-> choice[r][2].confidence]>>
             \o EntsFromRanges(tokens, ranges \ {r}, choice)

\* doc.ents: at most MaxEnts token-aligned spans that do not overlap
DocEnts(tokens) ==
    UNION {{EntsFromRanges(tokens, ranges, choice) :
                choice \in [ranges -> NerLabels \X NerConfidences]} :
           ranges \in {R \in SUBSET TokenRanges(tokens) :
                          /\ Cardinality(R) <= MaxEnts
                          /\ \A x, y \in R : x # y => (x[2] < y[1] \/ y[2] < x[1])}}

\* ImprovedPIIDetector.__init__ / _load_model: spacy.load succeeds or raises OSError
LoadModel ==
    /\ det_status = "constructing"
    /\ nlp' \in BOOLEAN
    /\ det_status' = "ready"
    /\ UNCHANGED <<sessVars, fileVars, extVars, det_text, doc_ents, all_entities,
                   filtered_entities>>

\* detect_sensitive_data(text): the ents the pipeline returns for the text go
\* through _extract_entities_with_spacy, regex_entities is what
\* _extract_entities_with_regex(text) returns
DetectarPagina(s, ents, regex_entities) ==
    /\ det_status = "ready"
    /\ det_text' = s
    /\ doc_ents' = ents
    /\ IF BlankText(s)
       THEN /\ all_entities' = <<>>
            /\ filtered_entities' = <<>>
            /\ det_status' = "returned"
       ELSE IF NlpCallRaises(nlp)
       THEN /\ all_entities' = <<>>
            /\ filtered_entities' = <<>>
            /\ det_status' = "raised"
       ELSE LET candidates == ExtractEntitiesWithSpacy(nlp, s, ents) \o regex_entities
            IN  /\ all_entities' = candidates
                /\ filtered_entities' = RemoveOverlaps(candidates)
                /\ det_status' = "returned"
    /\ UNCHANGED <<sessVars, fileVars, extVars, nlp>>

DetectSensitiveDataCall ==
    /\ det_status = "ready"
    /\ \E s \in DetTexts :
        LET regex_entities == ExtractEntitiesWithRegex(s)
            tokens == CHOOSE t \in DetTokenLists \cup {<<>>} :
                          JoinTokens(t) = s \/ (t = <<>> /\ BlankText(s))
        IN  \E ents \in (IF nlp /\ ~ BlankText(s) THEN DocEnts(tokens) ELSE {<<>>}) :
                DetectarPagina(s, ents, regex_entities)

InitDet == InitReuse

NextDet == LoadModel \/ DetectSensitiveDataCall

SpecDet == InitDet /\ [][NextDet]_vars

----------------------------------------------------------------------------
(* Mapping persistence (Anonimatizacao/mapping_utils.py): json.dump to a   *)
(* UTF-8 text file and json.load from it.  A file is a sequence of bytes;  *)
(* an ASCII character is its own byte.                                     *)

\* Code points outside ASCII: a letter with a tilde, and a lone surrogate (a
\* str may hold one; UTF-8 has no encoding for it).
CharATilde == "U+00E3"
LoneSurrogate == "U+D800"

\* the default `suffix` of save_mapping
Suffix == <<"_", "m", "a", "p", "p", "i", "n", "g", ".", "j", "s", "o", "n">>

\* str.rfind(c) as a 1-based position, 0 when c does not occur
RFind(p, c) ==
    IF \E i \in 1..Len(p) : p[i] = c
    THEN CHOOSE i \in 1..Len(p) : p[i] = c /\ \A j \in (i + 1)..Len(p) : p[j] # c
    ELSE 0

\* os.path.splitext(p)[0]: the last dot splits, unless it comes before the last
\* separator or only dots stand between the separator and it
SplitextRoot(p) ==
    LET sepIndex == RFind(p, "/")
        dotIndex == RFind(p, ".")
    IN  IF /\ dotIndex > sepIndex
           /\ \E k \in (sepIndex + 1)..(dotIndex - 1) : p[k] # "."
        THEN SubSeq(p, 1, dotIndex - 1)
        ELSE p

EscapeChar_Raw(c) == <<c>>

\* json.encoder ESCAPE_DCT (ensure_ascii=False): the escapes of the characters
\* of the model
EscapeChar(c) ==
    CASE c = "\"" -> <<"\\", "\"">>
      [] c = "\\" -> <<"\\", "\\">>
      [] c = "\n" -> <<"\\", "n">>
      [] OTHER    -> <<c>>

\* json.encoder.encode_basestring
EncodeString(s) ==
    <<"\"">> \o Flatten([i \in 1..Len(s) |-> EscapeChar(s[i])]) \o <<"\"">>

\* the newline and the indentation of indent=4
NewlineIndent == <<"\n", " ", " ", " ", " ">>

RECURSIVE DumpItems(_, _)
\* the chunks json.dump writes for the items from item i on
DumpItems(m, i) ==
    IF i > Len(m) THEN << <<"\n">>, <<"}">> >>
    ELSE << (IF i = 1 THEN NewlineIndent ELSE <<",">> \o NewlineIndent),
            EncodeString(m[i][1]), <<":", " ">>, EncodeString(m[i][2]) >>
         \o DumpItems(m, i + 1)

\* json.dump(mapping, f, ensure_ascii=False, indent=4): the chunks handed to f.write
DumpChunks(m) ==
    IF m = <<>> THEN << <<"{", "}">> >> ELSE << <<"{">> >> \o DumpItems(m, 1)

\* the text layer of open(..., 'w', encoding='utf-8') can encode the chunk
Encodable(chunk) == \A i \in 1..Len(chunk) : chunk[i] # LoneSurrogate

\* str.encode('utf-8')
Utf8Encode(chars) ==
    Flatten([i \in 1..Len(chars) |->
                IF chars[i] = CharATilde THEN <<"0xC3", "0xA3">> ELSE <<chars[i]>>])

RECURSIVE WrittenChunks(_)
\* the chunks written before f.write raises UnicodeEncodeError (all, if none does)
WrittenChunks(chunks) ==
    IF chunks = <<>> \/ ~ Encodable(Head(chunks)) THEN <<>>
    ELSE <<Head(chunks)>> \o WrittenChunks(Tail(chunks))

RECURSIVE Utf8Decode(_)
\* bytes.decode('utf-8'): [ok, chars]; not ok stands for UnicodeDecodeError
Utf8Decode(bytes) ==
    IF bytes = <<>> THEN [ok |-> TRUE, chars |-> <<>>]
    ELSE IF Head(bytes) = "0xC3"
         THEN IF Len(bytes) >= 2 /\ bytes[2] = "0xA3"
              THEN LET rest == Utf8Decode(SubSeq(bytes, 3, Len(bytes)))
                   IN  [ok |-> rest.ok, chars |-> <<CharATilde>> \o rest.chars]
              ELSE [ok |-> FALSE, chars |-> <<>>]
    ELSE IF Head(bytes) = "0xA3" THEN [ok |-> FALSE, chars |-> <<>>]
    ELSE LET rest == Utf8Decode(Tail(bytes))
         IN  [ok |-> rest.ok, chars |-> <<Head(bytes)>> \o rest.chars]

\* the whitespace json.decoder skips
JsonWhitespace == {" ", "\t", "\n", "\r"}

RECURSIVE SkipWhitespace(_, _)
SkipWhitespace(t, i) ==
    IF i <= Len(t) /\ t[i] \in JsonWhitespace THEN SkipWhitespace(t, i + 1) ELSE i

\* a step of the decoder that raises JSONDecodeError
DecodeError == [ok |-> FALSE, value |-> <<>>, next |-> 0]

RECURSIVE ScanString(_, _, _)
\* json.decoder.scanstring (strict) from the character after the opening quote on:
\* [ok, value, next]. The escapes are the ones the files of the model hold.
ScanString(t, i, acc) ==
    IF i > Len(t) THEN DecodeError
    ELSE IF t[i] = "\"" THEN [ok |-> TRUE, value |-> acc, next |-> i + 1]
    ELSE IF t[i] = "\\"
         THEN IF i + 1 > Len(t) THEN DecodeError
              ELSE IF t[i + 1] \in {"\"", "\\", "/"}
                   THEN ScanString(t, i + 2, Append(acc, t[i + 1]))
              ELSE IF t[i + 1] = "n" THEN ScanString(t, i + 2, Append(acc, "\n"))
              ELSE DecodeError
    ELSE IF t[i] \in {"\n", "\t", "\r"} THEN DecodeError
    ELSE ScanString(t, i + 1, Append(acc, t[i]))

RECURSIVE ParseMembers(_, _, _)
\* json.decoder.JSONObject from the opening quote of a key on; a later pair with
\* the key of an earlier one overwrites its value
ParseMembers(t, i, acc) ==
    LET key == ScanString(t, i + 1, <<>>)
        colon == SkipWhitespace(t, key.next)
        v == SkipWhitespace(t, colon + 1)
        val == ScanString(t, v + 1, <<>>)
        d == SkipWhitespace(t, val.next)
        pairs == DictPut(acc, key.value, val.value)
        k2 == SkipWhitespace(t, d + 1)
    IN  IF ~ key.ok THEN DecodeError
        ELSE IF colon > Len(t) \/ t[colon] # ":" THEN DecodeError
        ELSE IF v > Len(t) \/ t[v] # "\"" THEN DecodeError
        ELSE IF ~ val.ok THEN DecodeError
        ELSE IF d > Len(t) THEN DecodeError
        ELSE IF t[d] = "}" THEN [ok |-> TRUE, value |-> pairs, next |-> d + 1]
        ELSE IF t[d] # "," THEN DecodeError
        ELSE IF k2 > Len(t) \/ t[k2] # "\"" THEN DecodeError
        ELSE ParseMembers(t, k2, pairs)

\* json.loads of a text that holds an object of strings, or a part of one
JsonLoads(t) ==
    LET i == SkipWhitespace(t, 1)
        j == SkipWhitespace(t, i + 1)
        obj == IF i > Len(t) \/ t[i] # "{" THEN DecodeError
               ELSE IF j > Len(t) THEN DecodeError
               ELSE IF t[j] = "}" THEN [ok |-> TRUE, value |-> <<>>, next |-> j + 1]
               ELSE IF t[j] # "\"" THEN DecodeError
               ELSE ParseMembers(t, j, <<>>)
    IN  IF ~ obj.ok THEN DecodeError
        ELSE IF SkipWhitespace(t, obj.next) # Len(t) + 1 THEN DecodeError
        ELSE obj

\* load_mapping: the value it returns (or that it raises) and the line it prints
LoadMapping(file) ==
    IF file.state = "missing"
    THEN [kind |-> "None", value |-> <<>>, printed |-> "Mapping file not found"]
    ELSE IF file.state = "unreadable"
    THEN [kind |-> "None", value |-> <<>>, printed |-> "Error loading mapping file"]
    ELSE LET text == Utf8Decode(file.content)
         IN  IF ~ text.ok
             THEN [kind |-> "raised", value |-> <<>>, printed |-> "nothing"]
             ELSE IF ~ JsonLoads(text.chars).ok
             THEN [kind |-> "None", value |-> <<>>, printed |-> "Error decoding JSON"]
             ELSE [kind |-> "dict", value |-> JsonLoads(text.chars).value,
                   printed |-> "nothing"]

\* Anchor paths: an extension, none, a hidden file, a dot in the directory only,
\* two dots.
AnchorPaths ==
    {<<"d", ".", "p", "d", "f">>, <<"d">>, <<".", "p", "d", "f">>,
     <<"a", ".", "b", "/", "d">>, <<"d", ".", "x", ".", "p", "d", "f">>}

\* Keys and values of the mappings that are saved.
PersistKeys == {<<"a">>, <<CharATilde, "\"">>, <<"\\">>}

PersistValues ==
    {<<>>, <<"a", "\"">>, <<"\\", "n">>, <<"\n">>, <<CharATilde>>, <<LoneSurrogate>>}

PersistMappings ==
    {d \in UNION {[1..n -> PersistKeys \X PersistValues] : n \in 0..MaxItems} :
        \A i, j \in 1..Len(d) : i # j => d[i][1] # d[j][1]}

\* save_mapping(m, anchor); open() may fail (IOError), which is re-raised
SaveMappingCall ==
    /\ persist_status = "idle"
    /\ \E m \in PersistMappings, anchor \in AnchorPaths, writable \in BOOLEAN :
        LET chunks == DumpChunks(m)
            written == WrittenChunks(chunks)
        IN  /\ mapping' = m
            /\ original_pdf_path' = anchor
            /\ mapping_file_path' = SplitextRoot(anchor) \o Suffix
            /\ mapping_file' = IF writable
                               THEN [state |-> "file", content |-> Utf8Encode(Flatten(written))]
                               ELSE mapping_file
            /\ persist_status' = IF ~ writable THEN "save_raised_IOError"
                                 ELSE IF written # chunks THEN "save_raised_UnicodeEncodeError"
                                 ELSE "saved"
    /\ UNCHANGED <<file_fault, load_result, sessVars, fileVars, detVars, concVars,
                   docVars, textVars, otherVars>>

\* where a damaged file ends: at its start, before its last byte, or inside a
\* character
TruncationPoints(content) ==
    {n \in 0..(Len(content) - 1) : n = 0 \/ n = Len(content) - 1 \/ content[n] = "0xC3"}

\* Between save and load the file is deleted, cut short, or made unreadable.
DamageFile ==
    /\ persist_status = "saved"
    /\ file_fault = "none"
    /\ \/ /\ file_fault' = "missing"
          /\ mapping_file' = [state |-> "missing", content |-> <<>>]
       \/ /\ file_fault' = "unreadable"
          /\ mapping_file' = [mapping_file EXCEPT !.state = "unreadable"]
       \/ /\ file_fault' = "malformed"
          /\ \E n \in TruncationPoints(mapping_file.content) :
                mapping_file' = [mapping_file EXCEPT !.content = SubSeq(@, 1, n)]
    /\ UNCHANGED <<original_pdf_path, mapping, mapping_file_path, load_result, persist_status,
                   sessVars, fileVars, detVars, concVars,
                   docVars, textVars, otherVars>>

\* load_mapping(mapping_file_path)
LoadMappingCall ==
    /\ persist_status = "saved"
    /\ load_result' = LoadMapping(mapping_file)
    /\ persist_status' = "loaded"
    /\ UNCHANGED <<original_pdf_path, mapping, mapping_file_path, mapping_file, file_fault,
                   sessVars, fileVars, detVars, concVars,
                   docVars, textVars, otherVars>>

NextPersist == SaveMappingCall \/ DamageFile \/ LoadMappingCall

SpecPersist == InitReuse /\ [][NextPersist]_vars

----------------------------------------------------------------------------
(* Concurrent calls of anonimizar_texto: every call runs on the module's   *)
(* one anonymizer, so the threads share entity_counters.  A thread may be  *)
(* switched between any two reads or writes of the dict.                   *)

\* Documents of the threads.
ConcPageLists == {<<>>, << <<"a", " ">> >>}

ConcItemDicts ==
    {d \in ItemDicts : \A i \in 1..Len(d) : d[i][1] \in {<<"a">>, <<" ">>}}

\* self.entity_counters[entity_type] = value
CounterStore(counters, entity_type, value) ==
    [k \in (DOMAIN counters) \cup {entity_type} |->
        IF k = entity_type THEN value ELSE counters[k]]

\* thread t calls anonimizar_texto(pages, itens)
ConcCall(t) ==
    /\ sessions[t].pc = "idle"
    /\ \E pages \in ConcPageLists, itens \in ConcItemDicts :
          sessions' = [sessions EXCEPT ![t] = [IdleSession EXCEPT !.pc = "called",
                                                                  !.textos_paginas = pages,
                                                                  !.itens_sensiveis = itens]]
    /\ UNCHANGED <<sessVars, fileVars, detVars, persistVars,
                   docVars, textVars, otherVars>>

\* the early return, or self._reset_counters() and the empty mapeamento
ConcReset(t) ==
    /\ sessions[t].pc = "called"
    /\ IF EarlyReturn(sessions[t].textos_paginas, sessions[t].itens_sensiveis)
       THEN /\ sessions' = [sessions EXCEPT ![t].pc = "returned",
                                            ![t].textos_anonimizados = sessions[t].textos_paginas]
            /\ UNCHANGED entity_counters
       ELSE /\ sessions' = [sessions EXCEPT ![t].pc = "item", ![t].i = 1]
            /\ entity_counters' = SessionCounters(entity_counters)
    /\ UNCHANGED <<use_placeholders, preserve_structure, textos_paginas, itens_sensiveis,
                   textos_anonimizados, mapeamento, call_status, returned_pages_object,
                   input_origin,
                   texto_paginas_restaurado, rev_status, fileVars, detVars, persistVars,
                   docVars, textVars, otherVars>>

\* the loop head, and self.entity_counters.get(entity_type, 0) of the next item;
\* after the last item the pages are rewritten and the call returns
ConcRead(t) ==
    LET ses == sessions[t]
    IN  /\ ses.pc = "item"
        /\ IF ses.i > Len(ses.itens_sensiveis)
           THEN sessions' = [sessions EXCEPT
                                ![t].pc = "returned",
                                ![t].textos_anonimizados =
                                    RewritePages(ses.textos_paginas, ses.mapeamento,
                                                 preserve_structure)]
           ELSE sessions' = [sessions EXCEPT
                                ![t].pc = "bumping",
                                ![t].read = CounterGet(entity_counters,
                                                       ses.itens_sensiveis[ses.i][2])]
        /\ UNCHANGED <<sessVars, fileVars, detVars, persistVars,
                   docVars, textVars, otherVars>>

\* self.entity_counters[entity_type] = <the value read> + 1
ConcWrite(t) ==
    LET ses == sessions[t]
    IN  /\ ses.pc = "bumping"
        /\ entity_counters' = CounterStore(entity_counters, ses.itens_sensiveis[ses.i][2],
                                           ses.read + 1)
        /\ sessions' = [sessions EXCEPT ![t].pc = "formatting"]
        /\ UNCHANGED <<use_placeholders, preserve_structure, textos_paginas, itens_sensiveis,
                       textos_anonimizados, mapeamento, call_status, returned_pages_object,
                   input_origin,
                       texto_paginas_restaurado, rev_status, fileVars, detVars, persistVars,
                   docVars, textVars, otherVars>>

\* placeholder_format.format(..., counter=self.entity_counters[entity_type]), a
\* KeyError when the dict has no such key, and mapeamento[original] = replacement
ConcFormat(t) ==
    LET ses == sessions[t]
        original == ses.itens_sensiveis[ses.i][1]
        entity_type == ses.itens_sensiveis[ses.i][2]
    IN  /\ ses.pc = "formatting"
        /\ IF entity_type \in DOMAIN entity_counters
           THEN sessions' = [sessions EXCEPT
                                ![t].pc = "item",
                                ![t].i = ses.i + 1,
                                ![t].mapeamento =
                                    DictPut(ses.mapeamento, original,
                                            PlaceholderFormat(entity_type,
                                                              entity_counters[entity_type]))]
           ELSE sessions' = [sessions EXCEPT ![t].pc = "raised"]
        /\ UNCHANGED <<sessVars, fileVars, detVars, persistVars,
                   docVars, textVars, otherVars>>

NextConc ==
    \E t \in Threads :
        ConcCall(t) \/ ConcReset(t) \/ ConcRead(t) \/ ConcWrite(t) \/ ConcFormat(t)

SpecConc == InitReuse /\ [][NextConc]_vars

----------------------------------------------------------------------------
(* The whole-document view: encontrar_dados_sensiveis, as detection.py     *)
(* defines it over the detector and as Anonimatizacao/detection.py defines *)
(* it over the module's own nlp and regular expressions.                   *)

\* the legacy name of a detector type
LegacyType(type) ==
    CASE type = "PESSOA" -> "PERSON"
      [] type = "ORGANIZACAO" -> "ORG"
      [] type = "LOCAL" -> "LOC"
      [] type = "TELEFONE" -> "PHONE"
      [] OTHER -> type

EncontradosPut_KeepFirst(d, k, v) == IF HasKey(d, k) THEN d ELSE DictPut(d, k, v)

\* encontrados[text] = category
EncontradosPut(d, k, v) == DictPut(d, k, v)

\* what a page contributes: the entities of detector.detect_sensitive_data(texto),
\* in the order returned, under their legacy types
PageDetections(loaded, s, ents) ==
    LET entities == DetectSensitiveData(loaded, s, ents)
    IN  [i \in 1..Len(entities) |->
            [text |-> entities[i].text, type |-> LegacyType(entities[i].type),
             start |-> entities[i].start]]

RECURSIVE RecordDetections(_, _, _)
\* the inner loop: every detection of a page is stored under its text
RecordDetections(detections, i, acc) ==
    IF i > Len(detections) THEN acc
    ELSE RecordDetections(detections, i + 1,
                          EncontradosPut(acc, detections[i].text, detections[i].type))

RECURSIVE CollapsePages(_, _, _)
\* the outer loop `for texto in textos_paginas`, from page p on
CollapsePages(page_detections, p, acc) ==
    IF p > Len(page_detections) THEN acc
    ELSE CollapsePages(page_detections, p + 1, RecordDetections(page_detections[p], 1, acc))

\* CPF_REGEX, PHONE_REGEX and EMAIL_REGEX of Anonimatizacao/detection.py
LegacyCpfRegex ==
    <<Digits(3, 3), OptLit("."), Digits(3, 3), OptLit("."), Digits(3, 3), OptLit("-"),
      Digits(2, 2)>>

LegacyPhoneRegex ==
    <<Opt(<<OptLit("+"), Lit("5"), Lit("5"), Cls(WhitespaceChars, 0, 1)>>),
      OptLit("("), Digits(2, 2), OptLit(")"), Cls(WhitespaceChars, 0, 1),
      Digits(4, 5), OptLit("-"), Digits(4, 4)>>

LegacyEmailRegex ==
    <<WordBoundary,
      Cls(LowerLetters \cup UpperLetters \cup DigitChars \cup {"_", ".", "-"}, 1, -1),
      Lit("@"),
      Cls(LowerLetters \cup UpperLetters \cup DigitChars \cup {"_", ".", "-"}, 1, -1),
      Lit("."),
      Cls(LowerLetters \cup UpperLetters \cup DigitChars \cup {"_"}, 2, 4),
      WordBoundary>>

\* the category the legacy loop gives a label; "None" when the ent is skipped
LegacyLabelCategory(label) ==
    CASE label \in {"PERSON", "PER"} -> "PERSON"
      [] label = "ORG" -> "ORG"
      [] label \in {"GPE", "LOC"} -> "LOC"
      [] OTHER -> "None"

RECURSIVE LegacyNerDetections(_, _, _)
\* `for ent in doc.ents` of the legacy loop, from ent i on
LegacyNerDetections(s, ents, i) ==
    IF i > Len(ents) THEN <<>>
    ELSE (IF LegacyLabelCategory(ents[i].label) # "None"
          THEN <<[text |-> EntText(s, ents[i]),
                  type |-> LegacyLabelCategory(ents[i].label),
                  start |-> ents[i].start]>>
          ELSE <<>>)
         \o LegacyNerDetections(s, ents, i + 1)

\* `for match in re.finditer(REGEX, texto)` with its category
LegacyRegexDetections(s, category, regex) ==
    LET matches == FindIter(regex, s, 1)
    IN  [i \in 1..Len(matches) |->
            [text |-> SubSeq(s, matches[i].start + 1, matches[i].end),
             type |-> category, start |-> matches[i].start]]

\* what a page contributes in the legacy loop: ents, then CPF, PHONE and EMAIL matches
LegacyPageDetections(s, ents) ==
    LegacyNerDetections(s, ents, 1)
        \o LegacyRegexDetections(s, "CPF", LegacyCpfRegex)
        \o LegacyRegexDetections(s, "PHONE", LegacyPhoneRegex)
        \o LegacyRegexDetections(s, "EMAIL", LegacyEmailRegex)

\* the post-pass of Anonimatizacao/detection.py: the module binds no name
\* PADRAO_CPF, so the test of the first PHONE entry raises NameError; without a
\* PHONE entry duplicados stays empty
LegacyPostPassRaises(d) == \E i \in 1..Len(d) : d[i][2] = "PHONE"

\* Labels the pipeline may give a token: the statistical labels, and for a
\* token of digits those of the EntityRuler patterns
TokenLabels(tok) ==
    IF \E i \in 1..Len(tok) : tok[i] \in DigitChars
    THEN {"ORG", "CPF", "TELEFONE"}
    ELSE {"PER", "ORG"}

\* doc.ents of a page: at most MaxEnts single tokens, each a spaCy Span
PageEnts(tokens) ==
    UNION {{EntsFromRanges(tokens, ranges, choice) :
                choice \in {c \in [ranges -> {"PER", "ORG", "CPF", "TELEFONE"}
                                              \X {[has_confidence |-> FALSE, confidence |-> 0]}] :
                               \A r \in ranges : c[r][1] \in TokenLabels(tokens[r[1]])}} :
           ranges \in {R \in SUBSET {<<i, i>> : i \in 1..Len(tokens)} : Cardinality(R) <= MaxEnts}}

\* The documents handed to encontrar_dados_sensiveis, as the tokens of their pages.
DocTokenDocs ==
    { <<>>,
      << <<TokAna>> >>,
      << <<TokAna>>, <<TokAna>> >>,
      << <<TokAna, TokAna>> >>,
      << <<>>, <<TokAna>> >>,
      << <<TokDigits11>> >>,
      << <<TokDigits11>>, <<TokDigits11>> >>,
      << <<TokAna>>, <<TokDigits11>> >>,
      << <<TokCpfValid>> >>,
      << <<TokDdd, TokPhone>> >> }

\* the ents of every page of a document
DocPageEnts(doc, loaded) ==
    {e \in [1..Len(doc) -> UNION {PageEnts(doc[p]) : p \in 1..Len(doc)}] :
        \A p \in 1..Len(doc) : e[p] \in (IF loaded THEN PageEnts(doc[p]) ELSE {<<>>})}

\* encontrar_dados_sensiveis(textos_paginas) of detection.py
EncontrarDadosSensiveis(pages, page_ents) ==
    /\ doc_pages' = pages
    /\ doc_page_ents' = page_ents
    /\ LET detections == [p \in 1..Len(pages) |->
                             PageDetections(nlp, pages[p], page_ents[p])]
       IN  /\ doc_detections' = detections
           /\ encontrados' = CollapsePages(detections, 1, <<>>)
    /\ doc_status' = "returned"
    /\ UNCHANGED <<sessVars, fileVars, detVars, persistVars, concVars, textVars,
                   otherVars>>

\* encontrar_dados_sensiveis(textos_paginas) of Anonimatizacao/detection.py
EncontrarDadosSensiveisLegado(pages, page_ents) ==
    /\ doc_pages' = pages
    /\ doc_page_ents' = page_ents
    /\ IF pages # <<>> /\ ~ nlp
       THEN \* nlp(texto) with nlp = None
            /\ doc_detections' = <<>>
            /\ encontrados' = <<>>
            /\ doc_status' = "raised_TypeError"
       ELSE LET detections == [p \in 1..Len(pages) |->
                                  LegacyPageDetections(pages[p], page_ents[p])]
                collapsed == CollapsePages(detections, 1, <<>>)
            IN  /\ doc_detections' = detections
                /\ IF LegacyPostPassRaises(collapsed)
                   THEN /\ encontrados' = <<>>
                        /\ doc_status' = "raised_NameError"
                   ELSE /\ encontrados' = collapsed
                        /\ doc_status' = "returned"
    /\ UNCHANGED <<sessVars, fileVars, detVars, persistVars, concVars, textVars,
                   otherVars>>

\* a document is handed to the function the application imported
EncontrarDadosSensiveisCall ==
    /\ det_status = "ready"
    /\ \E doc \in DocTokenDocs :
        \E page_ents \in DocPageEnts(doc, nlp) :
            LET pages == [p \in 1..Len(doc) |-> JoinTokens(doc[p])]
            IN  \/ EncontrarDadosSensiveis(pages, page_ents)
                \/ EncontrarDadosSensiveisLegado(pages, page_ents)

NextDoc == LoadModel \/ EncontrarDadosSensiveisCall

SpecDoc == InitReuse /\ [][NextDoc]_vars

----------------------------------------------------------------------------
(* Reversal of one text (Anonimatizacao/reversion.py), and the three       *)
(* reversals side by side.                                                 *)

RECURSIVE ReplaceInDictOrder(_, _, _)
\* `for fake_value, original_value in mapping.items()` from item i on
ReplaceInDictOrder(text, map, i) ==
    IF i > Len(map) THEN text
    ELSE ReplaceInDictOrder(StrReplace(text, map[i][1], map[i][2]), map, i + 1)

\* deanonymize_text(anonymized_text, mapping)
DeanonymizedText(text, map) ==
    IF map = <<>> THEN text ELSE ReplaceInDictOrder(text, map, 1)

\* An anonymized page, and the documents, files and texts the reversals are run on.
FramePage == PlaceholderFormat("PESSOA", 1) \o <<" ", "a">>

FrameDocuments ==
    { [pages |-> <<>>, itens |-> <<>>],
      [pages |-> << <<"a", " ", "b">> >>, itens |-> << <<<<"a">>, "PESSOA">> >>],
      [pages |-> << <<"a">>, <<"b">> >>,
       itens |-> << <<<<"a">>, "PESSOA">>, <<<<"b">>, "PESSOA">> >>] }

FrameLoadedPageLists == {<<>>, <<FramePage>>}

FrameLoadedMappings ==
    { <<>>,
      << <<<<"b">>, PlaceholderFormat("PESSOA", 1)>> >>,
      << <<<<"a">>, PlaceholderFormat("PESSOA", 1)>>,
         <<<<"b">>, PlaceholderFormat("PESSOA", 1)>> >> }

FrameTexts == {<<>>, FramePage}

\* replacement -> original, as deanonymize_text expects it
FrameReverseMappings ==
    { <<>>,
      << <<PlaceholderFormat("PESSOA", 1), <<"b">>>> >>,
      << <<PlaceholderFormat("PESSOA", 1), <<"b">>>>, <<<<"a">>, <<"b">>>> >> }

\* the session anonymizes a document
AnonimizarParaReverter ==
    /\ call_status = "idle"
    /\ \E doc \in FrameDocuments : AnonymizeTexts(doc.pages, doc.itens)
    /\ input_origin' = "document"

\* carregar_e_reverter: the two files are chosen and the reversal thread runs
CarregarEReverter ==
    /\ finalizar_reversao_args = <<>>
    /\ \E pages \in FrameLoadedPageLists, map \in FrameLoadedMappings :
        ProcessarReversaoThreadCom(pages, map)

\* a caller binds the arguments of deanonymize_text
DeanonymizeTextCall ==
    /\ deanon_status = "idle"
    /\ \E text \in FrameTexts, map \in FrameReverseMappings :
        /\ anonymized_text' = text
        /\ deanon_mapping' = map
    /\ deanon_status' = "called"
    /\ UNCHANGED <<sessVars, fileVars, detVars, persistVars, concVars, docVars, otherVars,
                   reverted_text>>

\* deanonymize_text runs to its return: reverted_text is a new name for the
\* text, rebound by every replace
DeanonymizeText ==
    /\ deanon_status = "called"
    /\ reverted_text' = DeanonymizedText(anonymized_text, deanon_mapping)
    /\ deanon_status' = "returned"
    /\ UNCHANGED <<sessVars, fileVars, detVars, persistVars, concVars, docVars, otherVars,
                   anonymized_text, deanon_mapping>>

NextFrame ==
    \/ AnonimizarParaReverter
    \/ ReverterSessao
    \/ CarregarEReverter
    \/ DeanonymizeTextCall
    \/ DeanonymizeText

SpecFrame == InitReuse /\ [][NextFrame]_vars

----------------------------------------------------------------------------
(* The confidence of a span of the pipeline (enhanced_validator.py         *)
(* _calculate_ner_confidence), in hundredths.                              *)

\* str.isupper(): some cased character, and none of them lower case
IsUpper(s) ==
    /\ \E i \in 1..Len(s) : s[i] \in UpperLetters
    /\ \A i \in 1..Len(s) : s[i] \notin LowerLetters

\* any(char.isdigit() for char in ent.text)
HasDigit(s) == \E i \in 1..Len(s) : s[i] \in DigitChars

\* max(0.1, min(1.0, base_confidence))
Clamp(c) == IF c < 10 THEN 10 ELSE IF c > 100 THEN 100 ELSE c

\* `if text_length > 10: += 0.1 elif text_length < 3: -= 0.2`
LengthBonus(text_length) ==
    IF text_length > 10 THEN 10 ELSE IF text_length < 3 THEN -20 ELSE 0

\* _calculate_ner_confidence(ent)
CalculateNerConfidence(text) ==
    Clamp(80 + LengthBonus(Len(text))
             - (IF HasDigit(text) THEN 10 ELSE 0)
             - (IF IsUpper(text) /\ Len(text) > 1 THEN 15 ELSE 0))

MaxSpanLen == 12

\* The texts of spans: a first character and a filling, each a lower-case
\* letter, an upper-case letter or a digit.
ConfTexts ==
    {[i \in 1..n |-> IF i = 1 THEN first ELSE fill] :
        n \in 1..MaxSpanLen, first \in {"a", "A", "1"}, fill \in {"a", "A", "1"}}

\* validate_with_ner scores a span of the document
CalculateNerConfidenceCall ==
    /\ \E text \in ConfTexts :
        /\ conf_text' = text
        /\ conf_score' = CalculateNerConfidence(text)
    /\ UNCHANGED <<sessVars, fileVars, detVars, persistVars, concVars, docVars, textVars,
                   replVars, valVars, appVars>>

NextConf == CalculateNerConfidenceCall

SpecConf == InitReuse /\ [][NextConf]_vars

----------------------------------------------------------------------------
(* One substitution (anonymizer.py _perform_safe_replacement) on its own.  *)

MaxReplTextLen == 4

\* Texts of a word character, a full stop and a space.
ReplTexts == StrSeqs({"a", ".", " "}, MaxReplTextLen)

\* Detected strings: a word, a longer word, and strings that end or begin
\* with a non-word character.
ReplOriginals == {<<"a">>, <<"a", "a">>, <<"a", ".">>, <<".", "a">>}

\* A replacement of the placeholder format and a fake value that is a word.
ReplReplacements == {PlaceholderFormat("CPF", 1), <<"X">>}

\* _perform_safe_replacement(text, original, replacement)
PerformSafeReplacementCall ==
    /\ repl_status = "idle"
    /\ \E text \in ReplTexts, original \in ReplOriginals, replacement \in ReplReplacements :
        /\ repl_text' = text
        /\ repl_original' = original
        /\ repl_replacement' = replacement
        /\ repl_result' = PerformSafeReplacement(text, original, replacement)
    /\ repl_status' = "returned"
    /\ UNCHANGED <<sessVars, fileVars, detVars, persistVars, concVars, docVars, textVars,
                   confVars, valVars, appVars>>

NextRepl == PerformSafeReplacementCall

SpecRepl == InitReuse /\ [][NextRepl]_vars

----------------------------------------------------------------------------
(* The rewriting of a page with the origin of every character: of the page *)
(* or of a replacement value a substitution inserted.                      *)

RECURSIVE ReSubMatches(_, _, _)
\* the starts of the matches re.sub(r'\b' + re.escape(original) + r'\b', ...) replaces
ReSubMatches(text, original, i) ==
    IF i > Len(text) THEN {}
    ELSE IF /\ Boundary(text, i)
            /\ SubAt(text, i, original)
            /\ Boundary(text, i + Len(original))
         THEN {i} \cup ReSubMatches(text, original, i + Len(original))
         ELSE ReSubMatches(text, original, i + 1)

RECURSIVE StrReplaceMatches(_, _, _)
\* the starts of the occurrences text.replace(original, ...) replaces
StrReplaceMatches(text, original, i) ==
    IF i > Len(text) THEN {}
    ELSE IF SubAt(text, i, original)
         THEN {i} \cup StrReplaceMatches(text, original, i + Len(original))
         ELSE StrReplaceMatches(text, original, i + 1)

\* the occurrences _perform_safe_replacement replaces: those of the anchored
\* substitution, or of the raw one when the anchored result fails validation
SafeReplacementMatches(text, original, replacement) ==
    IF ~ ValidateReplacement(replacement, ReSubFrom(text, original, replacement, 1))
    THEN StrReplaceMatches(text, original, 1)
    ELSE ReSubMatches(text, original, 1)

RECURSIVE SubstituteAt(_, _, _, _, _)
\* seq with the n elements at each start replaced by repl
SubstituteAt(seq, starts, n, repl, i) ==
    IF i > Len(seq) THEN <<>>
    ELSE IF i \in starts
         THEN repl \o SubstituteAt(seq, starts, n, repl, i + n)
         ELSE <<seq[i]>> \o SubstituteAt(seq, starts, n, repl, i + 1)

\* texto_anon = texto: no character is inserted yet
MarkedPage(texto) ==
    [text |-> texto, inserted |-> [i \in 1..Len(texto) |-> FALSE], rewritten |-> FALSE]

\* one substitution on a marked page; rewritten when an occurrence it replaces
\* covers a character an earlier substitution inserted
ReplaceMarked(m, starts, original, replacement) ==
    [text |-> SubstituteAt(m.text, starts, Len(original), replacement, 1),
     inserted |-> SubstituteAt(m.inserted, starts, Len(original),
                               [i \in 1..Len(replacement) |-> TRUE], 1),
     rewritten |-> \/ m.rewritten
                   \/ \E start \in starts, j \in 0..(Len(original) - 1) :
                          m.inserted[start + j]]

RECURSIVE RewriteMarked(_, _, _, _)
\* the inner loop `for original in chaves_sensiveis` on a marked page
RewriteMarked(m, chaves, map, preserve) ==
    IF chaves = <<>> THEN m
    ELSE LET original == Head(chaves)
             replacement == Lookup(map, original)
             starts == IF preserve
                       THEN SafeReplacementMatches(m.text, original, replacement)
                       ELSE StrReplaceMatches(m.text, original, 1)
         IN  RewriteMarked(ReplaceMarked(m, starts, original, replacement),
                           Tail(chaves), map, preserve)

\* A page with the word 'CPF' and numbers, as a form has them.
LabelledPages ==
    {<<"C", "P", "F", " ", "1", "2">>, <<"1", "2", " ", "C", "P", "F">>,
     <<"C", "P", "F", "1", "2">>, <<"1", " ", "1", "2">>, <<"1", "2">>,
     <<"1", "2", "3", "4", "5", "6">>}

\* Detected strings: numbers, a shorter number, the word, and a field name
\* that reads like the inside of a placeholder.
LabelledKeys ==
    {<<"1", "2">>, <<"1">>, <<"C", "P", "F">>, <<"1", "2", "3", "4", "5", "6">>,
     <<"C", "P", "F", "_", "1">>}

LabelledKinds == {"CPF", "ORG"}

LabelledItemDicts ==
    {d \in UNION {[1..n -> LabelledKeys \X LabelledKinds] : n \in 1..2} :
        \A i, j \in 1..Len(d) : i # j => d[i][1] # d[j][1]}

\* A page of a form is anonymized by a freshly constructed anonymizer.
AnonimizarFormulario ==
    /\ call_status = "idle"
    /\ \E page \in LabelledPages, itens \in LabelledItemDicts : AnonymizeTexts(<<page>>, itens)
    /\ input_origin' = "document"

NextForm == AnonimizarFormulario

SpecForm == Init /\ [][NextForm]_vars

----------------------------------------------------------------------------
(* The integrity scan (anonymizer.py validate_anonymization).              *)

MaxValPages == 2
MaxValPageLen == 2

\* re.search(r'\w[A-Z][a-z]+[A-Z]', anon_text) finds a match
ConcatPattern(text) ==
    \E i \in 1..Len(text), k \in 1..Len(text) :
        /\ k >= i + 3
        /\ IsWordChar(text[i])
        /\ text[i + 1] \in UpperLetters
        /\ \A j \in (i + 2)..(k - 1) : text[j] \in LowerLetters
        /\ text[k] \in UpperLetters

RECURSIVE IntegrityErrors(_, _, _)
\* the loop over zip(original_texts, anonymized_texts) from pair p on: the keys
\* reported in errors, one entry per page and key found
IntegrityErrors(n, anonymized_texts, map) ==
    IF n = 0 THEN <<>>
    ELSE IntegrityErrors(n - 1, anonymized_texts, map)
         \o SelectSeq(Keys(map), LAMBDA original_data :
                          Contains(Lower(anonymized_texts[n]), Lower(original_data)))

Min(a, b) == IF a < b THEN a ELSE b

\* validate_anonymization (check_document_integrity is True in config.py);
\* warnings is the number of pages with the concatenation warning
ValidateAnonymization(original_texts, anonymized_texts, map) ==
    LET errors == IntegrityErrors(Min(Len(original_texts), Len(anonymized_texts)),
                                  anonymized_texts, map)
    IN  [errors |-> errors,
         warnings |-> Cardinality({p \in 1..Len(anonymized_texts) :
                                      ConcatPattern(anonymized_texts[p])}),
         integrity_check |-> errors = <<>>]

\* Anonymized pages of an upper-case and a lower-case letter.
ValPages == StrSeqs({"A", "a"}, MaxValPageLen)

ValPageLists == UNION {[1..n -> ValPages] : n \in 0..MaxValPages}

\* Mappings of a capitalized key, its lower-case form and a longer key.
ValMappings ==
    {d \in UNION {[1..n -> {<<"A">>, <<"a">>, <<"A", "a">>} \X {PlaceholderFormat("CPF", 1)}]
                      : n \in 0..2} :
        \A i, j \in 1..Len(d) : i # j => d[i][1] # d[j][1]}

\* validate_anonymization(original_texts, anonymized_texts, mapping), with as
\* many original pages as anonymized ones; the original pages are not read
ValidateAnonymizationCall ==
    /\ val_status = "idle"
    /\ \E anonymized_texts \in ValPageLists, map \in ValMappings :
        LET original_texts == [p \in 1..Len(anonymized_texts) |-> <<"A">>]
        IN  /\ val_original_texts' = original_texts
            /\ val_anonymized_texts' = anonymized_texts
            /\ val_mapping' = map
            /\ validation_results' = ValidateAnonymization(original_texts, anonymized_texts, map)
    /\ val_status' = "returned"
    /\ UNCHANGED <<sessVars, fileVars, detVars, persistVars, concVars, docVars, textVars,
                   confVars, replVars, appVars>>

NextVal == ValidateAnonymizationCall

SpecVal == InitReuse /\ [][NextVal]_vars

----------------------------------------------------------------------------
(* The window (app_fixed.py PDFAnonymizerApp): its buttons, the threads    *)
(* the handlers start and the callbacks the threads queue for the main     *)
(* thread.  A handler or callback of the main thread runs to its end: the  *)
(* dialogs it opens are modal.                                             *)

MaxThreads == 3

Buttons ==
    {"btn_carregar", "btn_anon", "btn_validar", "btn_reverter_sessao",
     "btn_carregar_e_reverter"}

NoValue == [run |-> 0, filled |-> FALSE]

SetUiBusy_AlwaysRevert(busy_status, caminho, texto, map) ==
    [b \in Buttons |->
        CASE b = "btn_anon" -> caminho /\ ~ busy_status
          [] b = "btn_validar" -> texto.filled /\ ~ busy_status
          [] OTHER -> ~ busy_status]

SetUiBusy_KeepLoaders(busy_status, caminho, texto, map) ==
    [b \in Buttons |->
        CASE b = "btn_anon" -> caminho /\ ~ busy_status
          [] b = "btn_validar" -> texto.filled /\ ~ busy_status
          [] b = "btn_reverter_sessao" -> map.filled /\ ~ busy_status
          [] OTHER -> TRUE]

\* _set_ui_busy(busy_status): the state it gives each button
SetUiBusy(busy_status, caminho, texto, map) ==
    [b \in Buttons |->
        CASE b = "btn_anon" -> caminho /\ ~ busy_status
          [] b = "btn_validar" -> texto.filled /\ ~ busy_status
          [] b = "btn_reverter_sessao" -> map.filled /\ ~ busy_status
          [] OTHER -> ~ busy_status]

\* threading.Thread(target=..., daemon=True).start()
StartThread(kind) ==
    /\ threads_started < MaxThreads
    /\ threads_started' = threads_started + 1
    /\ workers' = workers \cup {[id |-> threads_started + 1, kind |-> kind, pc |-> "start"]}

\* root.after(0, callback) as the last statement of thread w
QueueAndExit(w, callback, bound) ==
    /\ after_queue' = Append(after_queue, [callback |-> callback, thread |-> w.id, e_bound |-> bound])
    /\ workers' = workers \ {w}

\* carregar_pdf: the dialog is cancelled, extrair_texto raises, returns no
\* page, or returns the pages
CarregarPdf ==
    /\ buttons["btn_carregar"]
    /\ \E outcome \in {"cancelled", "raised", "no_pages", "loaded"} :
        /\ self_caminho_pdf' = (self_caminho_pdf \/ outcome # "cancelled")
        /\ IF outcome = "loaded"
           THEN /\ self_texto_paginas_anon' = NoValue
                /\ self_mapeamento' = NoValue
                /\ buttons' = [buttons EXCEPT !["btn_anon"] = TRUE,
                                              !["btn_validar"] = FALSE,
                                              !["btn_reverter_sessao"] = FALSE]
           ELSE UNCHANGED <<self_texto_paginas_anon, self_mapeamento, buttons>>
    /\ app_event' = "carregar_pdf"
    /\ UNCHANGED <<validation_thread, workers, after_queue, threads_started, reverter_outcome>>
    /\ UNCHANGED <<sessVars, fileVars, detVars, persistVars, concVars, docVars, textVars,
                   confVars, replVars, valVars>>

\* anonimizar
Anonimizar ==
    /\ buttons["btn_anon"]
    /\ IF ~ self_caminho_pdf
       THEN UNCHANGED <<buttons, workers, threads_started>>
       ELSE /\ buttons' = SetUiBusy(TRUE, self_caminho_pdf, self_texto_paginas_anon,
                                    self_mapeamento)
            /\ StartThread("anonimizar")
    /\ app_event' = "anonimizar"
    /\ UNCHANGED <<self_caminho_pdf, self_texto_paginas_anon, self_mapeamento,
                   validation_thread, after_queue, reverter_outcome>>
    /\ UNCHANGED <<sessVars, fileVars, detVars, persistVars, concVars, docVars, textVars,
                   confVars, replVars, valVars>>

\* _anonimizar_thread up to the assignment of texto_paginas_anon and mapeamento:
\* extraction or detection raises, or anonimizar_texto returns no pages, pages
\* and an empty mapping, or pages and a mapping.  The lambda queued by the except
\* clause reads e, which the thread unbinds when it leaves the clause: the
\* callback finds it bound or not.
AnonimizarThreadStore ==
    /\ \E w \in workers, outcome \in {"raised", "no_pages", "no_items", "items"},
          bound \in BOOLEAN :
        /\ w.kind = "anonimizar"
        /\ w.pc = "start"
        /\ IF outcome = "raised"
           THEN /\ QueueAndExit(w, "_handle_error", bound)
                /\ UNCHANGED <<self_texto_paginas_anon, self_mapeamento>>
           ELSE /\ bound
                /\ self_texto_paginas_anon' = [run |-> w.id, filled |-> outcome # "no_pages"]
                /\ self_mapeamento' = [run |-> w.id, filled |-> outcome = "items"]
                /\ workers' = (workers \ {w}) \cup {[w EXCEPT !.pc = "stored"]}
                /\ UNCHANGED after_queue
    /\ app_event' = "_anonimizar_thread"
    /\ UNCHANGED <<self_caminho_pdf, validation_thread, buttons, threads_started,
                   reverter_outcome>>
    /\ UNCHANGED <<sessVars, fileVars, detVars, persistVars, concVars, docVars, textVars,
                   confVars, replVars, valVars>>

\* _anonimizar_thread from salvar_pdf_anon on (it raises for no pages, and may
\* raise otherwise)
AnonimizarThreadSave ==
    /\ \E w \in workers, saved \in BOOLEAN, bound \in BOOLEAN :
        /\ w.kind = "anonimizar"
        /\ w.pc = "stored"
        /\ IF saved /\ self_texto_paginas_anon.filled
           THEN bound /\ QueueAndExit(w, "_finalizar_anonimizacao", TRUE)
           ELSE QueueAndExit(w, "_handle_error", bound)
    /\ app_event' = "_anonimizar_thread"
    /\ UNCHANGED <<self_caminho_pdf, self_texto_paginas_anon, self_mapeamento,
                   validation_thread, buttons, threads_started, reverter_outcome>>
    /\ UNCHANGED <<sessVars, fileVars, detVars, persistVars, concVars, docVars, textVars,
                   confVars, replVars, valVars>>

\* validar
Validar ==
    /\ buttons["btn_validar"]
    /\ IF \/ ~ self_texto_paginas_anon.filled
          \/ \E w \in workers : w.id = validation_thread
       THEN UNCHANGED <<buttons, workers, threads_started, validation_thread>>
       ELSE /\ buttons' = SetUiBusy(TRUE, self_caminho_pdf, self_texto_paginas_anon,
                                    self_mapeamento)
            /\ StartThread("validar")
            /\ validation_thread' = threads_started + 1
    /\ app_event' = "validar"
    /\ UNCHANGED <<self_caminho_pdf, self_texto_paginas_anon, self_mapeamento,
                   after_queue, reverter_outcome>>
    /\ UNCHANGED <<sessVars, fileVars, detVars, persistVars, concVars, docVars, textVars,
                   confVars, replVars, valVars>>

\* _perform_validation: it queues _update_validation_ui with the result or with
\* the exception, passed as an argument
PerformValidation ==
    /\ \E w \in workers :
        /\ w.kind = "validar"
        /\ QueueAndExit(w, "_update_validation_ui", TRUE)
    /\ app_event' = "_perform_validation"
    /\ UNCHANGED <<self_caminho_pdf, self_texto_paginas_anon, self_mapeamento,
                   validation_thread, buttons, threads_started, reverter_outcome>>
    /\ UNCHANGED <<sessVars, fileVars, detVars, persistVars, concVars, docVars, textVars,
                   confVars, replVars, valVars>>

\* reverter_sessao
ReverterSessaoApp ==
    /\ buttons["btn_reverter_sessao"]
    /\ reverter_outcome' = IF ~ self_texto_paginas_anon.filled \/ ~ self_mapeamento.filled
                           THEN "nothing_to_revert"
                           ELSE "reverted"
    /\ app_event' = "reverter_sessao"
    /\ UNCHANGED <<self_caminho_pdf, self_texto_paginas_anon, self_mapeamento,
                   validation_thread, buttons, workers, after_queue, threads_started>>
    /\ UNCHANGED <<sessVars, fileVars, detVars, persistVars, concVars, docVars, textVars,
                   confVars, replVars, valVars>>

\* carregar_e_reverter: a dialog is cancelled, or both files are chosen
CarregarEReverterApp ==
    /\ buttons["btn_carregar_e_reverter"]
    /\ \E chosen \in BOOLEAN :
        IF chosen
        THEN /\ buttons' = SetUiBusy(TRUE, self_caminho_pdf, self_texto_paginas_anon,
                                     self_mapeamento)
             /\ StartThread("reverter")
        ELSE UNCHANGED <<buttons, workers, threads_started>>
    /\ app_event' = "carregar_e_reverter"
    /\ UNCHANGED <<self_caminho_pdf, self_texto_paginas_anon, self_mapeamento,
                   validation_thread, after_queue, reverter_outcome>>
    /\ UNCHANGED <<sessVars, fileVars, detVars, persistVars, concVars, docVars, textVars,
                   confVars, replVars, valVars>>

\* _processar_reversao_thread: it queues _finalizar_reversao with the texts or
\* with a message; the lambda of the except clause reads e as above
ProcessarReversaoThreadApp ==
    /\ \E w \in workers, bound \in BOOLEAN :
        /\ w.kind = "reverter"
        /\ QueueAndExit(w, "_finalizar_reversao", bound)
    /\ app_event' = "_processar_reversao_thread"
    /\ UNCHANGED <<self_caminho_pdf, self_texto_paginas_anon, self_mapeamento,
                   validation_thread, buttons, threads_started, reverter_outcome>>
    /\ UNCHANGED <<sessVars, fileVars, detVars, persistVars, concVars, docVars, textVars,
                   confVars, replVars, valVars>>

\* The main loop runs the oldest queued callback: _finalizar_anonimizacao,
\* _handle_error, _update_validation_ui or _finalizar_reversao.  Each ends in
\* _set_ui_busy(False); a lambda whose e is unbound raises NameError before it
\* calls anything and the buttons stay as they are.
RunCallback ==
    /\ after_queue # <<>>
    /\ LET cb == Head(after_queue)
       IN  /\ after_queue' = Tail(after_queue)
           /\ app_event' = cb.callback
           /\ buttons' = IF cb.e_bound
                         THEN SetUiBusy(FALSE, self_caminho_pdf, self_texto_paginas_anon,
                                        self_mapeamento)
                         ELSE buttons
           /\ validation_thread' = IF cb.callback = "_update_validation_ui"
                                   THEN 0
                                   ELSE validation_thread
    /\ UNCHANGED <<self_caminho_pdf, self_texto_paginas_anon, self_mapeamento, workers,
                   threads_started, reverter_outcome>>
    /\ UNCHANGED <<sessVars, fileVars, detVars, persistVars, concVars, docVars, textVars,
                   confVars, replVars, valVars>>

NextApp ==
    \/ CarregarPdf
    \/ Anonimizar
    \/ AnonimizarThreadStore
    \/ AnonimizarThreadSave
    \/ Validar
    \/ PerformValidation
    \/ ReverterSessaoApp
    \/ CarregarEReverterApp
    \/ ProcessarReversaoThreadApp
    \/ RunCallback

SpecApp == InitReuse /\ [][NextApp]_vars

----------------------------------------------------------------------------
(* Properties of the substitution engine and of the reversal.              *)

ValuesDistinct(d) == \A i, j \in 1..Len(d) : i # j => d[i][2] # d[j][2]

Reverted == rev_status \in {"restored_exactly", "restored_for_view"}

\* C1: round trip. A page anonymized by anonymize_texts with pairwise distinct
\* replacements for items found on it, and then reverted by the session
\* reversal, is the original page.
AllItemsOnPages ==
    \A i \in 1..Len(itens_sensiveis) :
        \E p \in 1..Len(textos_paginas) : Contains(textos_paginas[p], itens_sensiveis[i][1])

C1_RoundTrip ==
    (Reverted /\ ValuesDistinct(mapeamento) /\ AllItemsOnPages)
        => texto_paginas_restaurado = textos_paginas

\* L with the occurrence of S at position k rewritten to S's replacement
SpliceShort(L, S, k, rS) == SubSeq(L, 1, k - 1) \o rS \o SubSeq(L, k + Len(S), Len(L))

\* C2: longest match first. When a key S is a proper part of a key L, no
\* occurrence of L in a page comes back as S's replacement spliced into the
\* rest of L (the short key never corrupts the longer key that holds it).
C2_LongestMatchFirst ==
    call_status = "returned" =>
        \A p \in 1..Len(textos_paginas) : \A i, j \in 1..Len(mapeamento) :
            LET L == mapeamento[i][1]
                S == mapeamento[j][1]
            IN  (i # j /\ Len(S) < Len(L) /\ Contains(textos_paginas[p], L))
                => \A k \in 1..Len(L) :
                        SubAt(L, k, S) =>
                            ~ Contains(textos_anonimizados[p],
                                       SpliceShort(L, S, k, mapeamento[j][2]))

\* C3: uniqueness. In placeholder mode and in fake-value mode, the values of a
\* mapping returned by anonymize_texts are pairwise distinct.
C3_Uniqueness == call_status = "returned" => ValuesDistinct(mapeamento)

\* Two strings of one kind were given fake values by a call that returned.
C3_Witness ==
    /\ call_status = "returned"
    /\ ~ use_placeholders
    /\ Len(mapeamento) >= 2
    /\ itens_sensiveis[1][2] = itens_sensiveis[2][2]

\* C10: nothing found. anonymize_texts with no items (or no pages) returns, hands
\* back its input pages unchanged and an empty mapping, also when the pages are
\* the output of an earlier anonymization.
C10_NoOpOnNothingFound ==
    (call_status # "idle" /\ (itens_sensiveis = <<>> \/ textos_paginas = <<>>))
        => /\ call_status = "returned"
           /\ textos_anonimizados = textos_paginas
           /\ mapeamento = <<>>

\* Pages that hold a replacement were anonymized again with no new items.
C10_Witness ==
    /\ input_origin = "previous_output"
    /\ call_status = "returned"
    /\ itens_sensiveis = <<>>
    /\ \E p \in 1..Len(textos_paginas) : Contains(textos_paginas[p], <<"[">>)
    /\ textos_anonimizados = textos_paginas

\* the mapping anonymize_texts(pages, itens) returns on a freshly constructed
\* instance (entity_counters = {}) in placeholder mode
FreshMappings(itens) ==
    {o.mapeamento : o \in MappingOutcomes(TRUE, itens, 1, <<>>, {}, SessionCounters(<<>>))}

\* C11: reproducible numbering. In placeholder mode a call with non-empty pages
\* and items returns, after any earlier calls on the same instance, the mapping
\* the same call returns on a freshly constructed instance.
C11_ReproducibleNumbering ==
    (/\ call_status = "returned"
     /\ use_placeholders
     /\ textos_paginas # <<>>
     /\ itens_sensiveis # <<>>)
        => mapeamento \in FreshMappings(itens_sensiveis)

\* A later call on a used instance numbered two items of one kind.
C11_Witness ==
    /\ call_status = "returned"
    /\ use_placeholders
    /\ input_origin = "next_document"
    /\ Len(mapeamento) = 2
    /\ itens_sensiveis[1][2] = itens_sensiveis[2][2]

\* how many of the items 1..i have the kind of item i
KindRank(itens, i) == Cardinality({j \in 1..i : itens[j][2] = itens[i][2]})

\* C12: placeholder numbering. In placeholder mode the k-th item of a kind, in
\* the order of the item dict, gets '[KIND_k]': every kind counts from 1 in
\* steps of 1 on its own, registered in ENTITY_TYPES or not, and after the call
\* each counter holds the number of items of its kind.
C12_PlaceholderNumbering ==
    (/\ call_status = "returned"
     /\ use_placeholders
     /\ textos_paginas # <<>>
     /\ itens_sensiveis # <<>>)
        => /\ Len(mapeamento) = Len(itens_sensiveis)
           /\ \A i \in 1..Len(itens_sensiveis) :
                 mapeamento[i] = <<itens_sensiveis[i][1],
                                   PlaceholderFormat(itens_sensiveis[i][2],
                                                     KindRank(itens_sensiveis, i))>>
           /\ \A k \in DOMAIN entity_counters :
                 entity_counters[k] =
                     Cardinality({j \in 1..Len(itens_sensiveis) : itens_sensiveis[j][2] = k})

\* An item of a registered kind and then one of a kind that is not registered
\* were numbered, each from 1.
C12_Witness ==
    /\ call_status = "returned"
    /\ use_placeholders
    /\ Len(mapeamento) = 2
    /\ itens_sensiveis[1][2] = "CPF"
    /\ itens_sensiveis[2][2] = "PERSON"
    /\ mapeamento[2][2] = PlaceholderFormat("PERSON", 1)

\* C13: acyclic mapping. In every mapping anonymize_texts returns, no key is
\* equal to a value of the same mapping, whatever the detected item strings.
C13_AcyclicMapping ==
    call_status = "returned" =>
        \A i, j \in 1..Len(mapeamento) : mapeamento[i][1] # mapeamento[j][2]

----------------------------------------------------------------------------
(* Properties of the reversal from files.                                  *)

\* two distinct originals with the same replacement
Ambiguous(d) == \E i, j \in 1..Len(d) : i # j /\ d[i][2] = d[j][2]

\* C4: ambiguous reversal. When the mapping handed to the reversal gives two
\* distinct originals the same replacement, the reversal reports the
\* AmbiguousReversal condition and hands back no reverted text.
C4_AmbiguousReversalReported ==
    (/\ finalizar_reversao_args # <<>>
     /\ texto_paginas_anon_carregado # <<>>
     /\ Ambiguous(mapeamento_carregado))
        => /\ finalizar_reversao_args[1].error_msg = "AmbiguousReversal"
           /\ finalizar_reversao_args[1].texto_paginas_restaurado = <<>>

----------------------------------------------------------------------------
(* Properties of the detector.                                             *)

Returned == det_status = "returned"

InList(e, list) == \E i \in 1..Len(list) : list[i] = e

\* C5: non-overlap. The list detect_sensitive_data returns is ordered by start
\* and pairwise non-overlapping: consecutive spans a, b have a.end <= b.start.
C5_NonOverlap ==
    Returned =>
        \A i \in 1..(Len(filtered_entities) - 1) :
            filtered_entities[i].end <= filtered_entities[i + 1].start

\* Overlapping candidates were found and at least two spans were returned.
C5_Witness ==
    /\ Returned
    /\ Len(filtered_entities) >= 2
    /\ Len(all_entities) > Len(filtered_entities)

\* candidate i comes before candidate j in the order (start ascending, confidence
\* descending, length descending), equal keys keeping their list order
C6_Before(i, j) ==
    LET a == all_entities[i]
        b == all_entities[j]
        ka == <<a.start, 0 - a.confidence, 0 - (a.end - a.start)>>
        kb == <<b.start, 0 - b.confidence, 0 - (b.end - b.start)>>
    IN  \/ ka[1] < kb[1]
        \/ ka[1] = kb[1] /\ ka[2] < kb[2]
        \/ ka[1] = kb[1] /\ ka[2] = kb[2] /\ ka[3] < kb[3]
        \/ ka = kb /\ i < j

\* K is the set of candidates one greedy scan keeps
C6_GreedyKept(K) ==
    \A j \in 1..Len(all_entities) :
        j \in K <=> ~ \E i \in K : C6_Before(i, j)
                                   /\ all_entities[i].end > all_entities[j].start

\* C6: overlap resolution is the greedy policy. The returned list is the
\* candidates in (start, -confidence, -length) order, each kept iff its start is
\* not before the end of the last kept one; so of two overlapping candidates the
\* one starting first is kept, and at equal starts the more confident, then the
\* longer one.
C6_GreedyPolicy ==
    Returned =>
        /\ \E K \in SUBSET (1..Len(all_entities)) :
              /\ C6_GreedyKept(K)
              /\ Len(filtered_entities) = Cardinality(K)
              /\ \A i \in K :
                    filtered_entities[1 + Cardinality({j \in K : C6_Before(j, i)})]
                        = all_entities[i]
        /\ Len(all_entities) = 2 =>
              \A i, j \in 1..2 :
                 LET a == all_entities[i]
                     b == all_entities[j]
                 IN  /\ (a.start < b.start /\ b.start < a.end)
                            => filtered_entities = <<a>>
                     /\ (a.start = b.start /\ a.confidence > b.confidence)
                            => filtered_entities = <<a>>
                     /\ (a.start = b.start /\ a.confidence = b.confidence
                            /\ a.end > b.end)
                            => filtered_entities = <<a>>

\* A candidate was kept against an overlapping, more confident one that starts later.
C6_Witness ==
    /\ Returned
    /\ \E i, j \in 1..Len(all_entities) :
          /\ all_entities[i].start < all_entities[j].start
          /\ all_entities[j].start < all_entities[i].end
          /\ all_entities[i].confidence < all_entities[j].confidence
          /\ InList(all_entities[i], filtered_entities)
          /\ ~ InList(all_entities[j], filtered_entities)

\* C7: stop terms. No span detect_sensitive_data returns has a text that,
\* lowercased and trimmed, is a stop term, whichever extractor proposed it.
C7_StopTermExclusion ==
    Returned =>
        \A i \in 1..Len(filtered_entities) :
            Strip(Lower(filtered_entities[i].text)) \notin StopTerms

\* The pipeline proposed a stop term as a person, confidently, and nothing else
\* covered it.
C7_Witness ==
    /\ Returned
    /\ nlp
    /\ \E i \in 1..Len(doc_ents) :
          /\ doc_ents[i].label = "PER"
          /\ EntConfidence(doc_ents[i]) >= min_confidence_threshold
          /\ EntText(det_text, doc_ents[i]) = TokDeCap
          /\ \A k \in 1..Len(filtered_entities) :
                \/ filtered_entities[k].end <= doc_ents[i].start
                \/ filtered_entities[k].start >= doc_ents[i].end

\* the whole of s matches the CPF pattern
CpfLayout(s) == MatchItems(PatternCpf, s, 1) = Len(s) + 1

\* C8: checksum gating. No span returned with the kind CPF is a string of the
\* CPF layout whose check digits fail the CPF checksum.
C8_ChecksumGating ==
    Returned =>
        \A i \in 1..Len(filtered_entities) :
            (/\ filtered_entities[i].type = "CPF"
             /\ CpfLayout(filtered_entities[i].text))
                => ValidateCpfChecksum(filtered_entities[i].text)

\* the ents whose confidence passes the threshold
ConfidentEnts(ents) == SelectSeq(ents, LAMBDA e : EntConfidence(e) >= min_confidence_threshold)

\* C9: confidence threshold. Every returned span, and every candidate handed to
\* the overlap resolution, has confidence >= min_confidence_threshold; the
\* result is the one the text gives without the ents below the threshold.
C9_ConfidenceThreshold ==
    Returned =>
        /\ \A i \in 1..Len(filtered_entities) :
              filtered_entities[i].confidence >= min_confidence_threshold
        /\ \A i \in 1..Len(all_entities) :
              all_entities[i].confidence >= min_confidence_threshold
        /\ filtered_entities = DetectSensitiveData(nlp, det_text, ConfidentEnts(doc_ents))

\* An ent below the threshold overlapped a later candidate, which was returned.
C9_Witness ==
    /\ Returned
    /\ nlp
    /\ \E i \in 1..Len(doc_ents) :
          /\ EntConfidence(doc_ents[i]) < min_confidence_threshold
          /\ EntityTypeOfLabel(doc_ents[i].label) # "None"
          /\ ~ IsStopTerm(EntText(det_text, doc_ents[i]))
          /\ \E k \in 1..Len(filtered_entities) :
                /\ doc_ents[i].start < filtered_entities[k].start
                /\ filtered_entities[k].start < doc_ents[i].end

----------------------------------------------------------------------------
(* Properties of the mapping persistence.                                  *)

\* every key and value of m can be written as UTF-8
EncodableMapping(m) == \A i \in 1..Len(m) : Encodable(m[i][1]) /\ Encodable(m[i][2])

\* path is anchor without its extension, plus the fixed suffix
DerivedPath(path, anchor) ==
    /\ path = SplitextRoot(anchor) \o Suffix
    /\ \E n \in 0..Len(anchor) :
          LET ext == SubSeq(anchor, n + 1, Len(anchor))
          IN  /\ path = SubSeq(anchor, 1, n) \o Suffix
              /\ ext = <<>> \/ (ext[1] = "." /\ \A k \in 2..Len(ext) : ext[k] \notin {".", "/"})

\* save_mapping returned the derived path, and the mapping loaded from the
\* untouched file is the saved one, pair by pair
SavedAndLoadedBack ==
    /\ persist_status \in {"saved", "loaded"}
          => DerivedPath(mapping_file_path, original_pdf_path)
    /\ (persist_status = "loaded" /\ file_fault = "none")
          => load_result.kind = "dict" /\ load_result.value = mapping

\* C15 (as stated): for every string-to-string mapping, save_mapping writes to
\* the anchor path without its extension plus '_mapping.json' and returns that
\* path, and load_mapping of it yields the saved mapping, same keys, values and
\* order.
C15_PersistenceRoundTrip ==
    /\ persist_status # "save_raised_UnicodeEncodeError"
    /\ SavedAndLoadedBack

\* C15 (amended): the same for every mapping whose strings can be encoded as
\* UTF-8; for a mapping that holds a lone surrogate save_mapping raises.
C15_RoundTripOfEncodable ==
    /\ (persist_status # "idle" /\ EncodableMapping(mapping))
          => persist_status # "save_raised_UnicodeEncodeError"
    /\ (persist_status # "idle" /\ ~ EncodableMapping(mapping))
          => persist_status \notin {"saved", "loaded"}
    /\ SavedAndLoadedBack

\* A mapping of two pairs with a non-ASCII letter, a quote and a backslash was
\* saved beside a path with two dots and loaded back.
C15_Witness ==
    /\ persist_status = "loaded"
    /\ file_fault = "none"
    /\ original_pdf_path = <<"d", ".", "x", ".", "p", "d", "f">>
    /\ mapping = << <<<<CharATilde, "\"">>, <<"\\", "n">>>>, <<<<"\\">>, <<CharATilde>>>> >>
    /\ load_result.value = mapping

\* the files load_mapping may meet in a failure case, for the mapping that was saved
FilesOfCase(c) ==
    LET content == Utf8Encode(Flatten(DumpChunks(mapping)))
    IN  CASE c = "missing"    -> {[state |-> "missing", content |-> <<>>]}
          [] c = "unreadable" -> {[state |-> "unreadable", content |-> content]}
          [] OTHER            -> {[state |-> "file", content |-> SubSeq(content, 1, n)] :
                                     n \in TruncationPoints(content)}

\* what the caller of load_mapping gets
Outcome(r) == <<r.kind, r.value>>

\* C16: load_mapping tells the failures apart. After a missing file, malformed
\* content or another I/O failure, the result is not a mapping and differs from
\* every result the other two cases give.
C16_FailuresDistinguished ==
    (persist_status = "loaded" /\ file_fault # "none")
        => /\ load_result.kind # "dict"
           /\ \A c \in {"missing", "malformed", "unreadable"} \ {file_fault} :
                 \A f \in FilesOfCase(c) :
                    Outcome(LoadMapping(f)) # Outcome(load_result)

----------------------------------------------------------------------------
(* Properties of concurrent sessions.                                      *)

\* C17: session isolation. Of two calls of anonimizar_texto interleaved in any
\* way, none raises and each returns the mapping and the pages it returns when
\* run alone.
C17_SessionIsolation ==
    \A t \in Threads :
        LET ses == sessions[t]
        IN  /\ ses.pc # "raised"
            /\ (ses.pc = "returned"
                  /\ ~ EarlyReturn(ses.textos_paginas, ses.itens_sensiveis))
                  => /\ ses.mapeamento \in FreshMappings(ses.itens_sensiveis)
                     /\ ses.textos_anonimizados =
                            RewritePages(ses.textos_paginas, ses.mapeamento, preserve_structure)

----------------------------------------------------------------------------
(* Properties of the whole-document view.                                  *)

\* every detection recorded for the document, with its page
DocDetections ==
    UNION {{[page |-> p, text |-> doc_detections[p][i].text,
             type |-> doc_detections[p][i].type, start |-> doc_detections[p][i].start] :
                i \in 1..Len(doc_detections[p])} : p \in 1..Len(doc_detections)}

\* the kinds detected at the last place of the document where text was detected
LastKinds(text) ==
    LET of_text == {d \in DocDetections : d.text = text}
        last == {d \in of_text : \A e \in of_text :
                    e.page < d.page \/ (e.page = d.page /\ e.start <= d.start)}
    IN  {d.type : d \in last}

Fullmatch(items, s) == MatchItems(items, s, 1) = Len(s) + 1

RECURSIVE RelabelPhones(_)
\* the post-pass as documented: a PHONE whose text is a whole CPF becomes a CPF
RelabelPhones(d) ==
    IF d = <<>> THEN <<>>
    ELSE <<(IF Head(d)[2] = "PHONE" /\ Fullmatch(PatternCpf, Head(d)[1])
            THEN <<Head(d)[1], "CPF">>
            ELSE Head(d))>> \o RelabelPhones(Tail(d))

\* the dictionary the loops of the call built, before any post-pass
Collapsed == CollapsePages(doc_detections, 1, <<>>)

\* C19: a call of encontrar_dados_sensiveis that has a spaCy pipeline to run
\* returns the dictionary of its detections with every PHONE entry whose text is a
\* whole CPF relabelled CPF and every other entry as detected, so no PHONE entry
\* of the result matches the CPF pattern.
C19_PhoneToCpfPostPass ==
    doc_status \notin {"idle", "raised_TypeError"} =>
        /\ doc_status = "returned"
        /\ encontrados = RelabelPhones(Collapsed)
        /\ \A i \in 1..Len(encontrados) :
               encontrados[i][2] = "PHONE" => ~ Fullmatch(PatternCpf, encontrados[i][1])

----------------------------------------------------------------------------
(* Properties of the reversals as a whole.                                 *)

\* C20: a reversal leaves what it reads as it was: reverter_sessao the pages and
\* the mapping of the session, _processar_reversao_thread the pages and the
\* mapping it loaded (it hands them on to _finalizar_reversao as loaded), and
\* deanonymize_text its text and its mapping.
C20_ReversalLeavesInputs ==
    [][ /\ (rev_status = "none" /\ rev_status' # "none") =>
               /\ textos_anonimizados' = textos_anonimizados
               /\ mapeamento' = mapeamento
        /\ (/\ finalizar_reversao_args = <<>>
            /\ finalizar_reversao_args' # <<>>
            /\ finalizar_reversao_args'[1].error_msg = "None") =>
               /\ finalizar_reversao_args'[1].texto_paginas_anon_carregado =
                      texto_paginas_anon_carregado'
               /\ finalizar_reversao_args'[1].mapeamento_carregado = mapeamento_carregado'
        /\ (deanon_status = "called" /\ deanon_status' = "returned") =>
               /\ anonymized_text' = anonymized_text
               /\ deanon_mapping' = deanon_mapping ]_vars

\* each of the three reversals has run and has rebuilt a text that differs from
\* the one it read
C20_Witness ==
    /\ rev_status \in {"restored_exactly", "restored_for_view"}
    /\ texto_paginas_restaurado # textos_anonimizados
    /\ finalizar_reversao_args # <<>>
    /\ finalizar_reversao_args[1].error_msg = "None"
    /\ finalizar_reversao_args[1].texto_paginas_restaurado # texto_paginas_anon_carregado
    /\ deanon_status = "returned"
    /\ reverted_text # anonymized_text

----------------------------------------------------------------------------
(* Properties of the substitution engine: termination, results and frame.  *)

\* C22: a call of anonymize_texts comes to an end, with a mapping or with an
\* error, whatever the items are: the loop that draws a replacement again until
\* it is unused does not run for ever, also when two originals have a kind whose
\* generator returns one constant mask.
C22_RetryTerminates == call_status # "hung"

----------------------------------------------------------------------------
(* Properties of the confidence of a span.                                 *)

\* the score as stated: 0.8, less 0.2 for fewer than 3 characters, less 0.1
\* for a digit, less 0.15 for upper case of more than one character, clamped
StatedScore(text) ==
    Clamp(80 - (IF Len(text) < 3 THEN 20 ELSE 0)
             - (IF HasDigit(text) THEN 10 ELSE 0)
             - (IF IsUpper(text) /\ Len(text) > 1 THEN 15 ELSE 0))

\* a span of the pipeline carries no confidence attribute of its own
PlainSpan == [has_confidence |-> FALSE, confidence |-> 0]

\* C26: the confidence a span of the pipeline is given is 0.8, less 0.2 when the
\* span has fewer than 3 characters, less 0.1 when it holds a digit, less 0.15
\* when it is upper case and longer than one character, kept within 0.1 and 1.0:
\* by the validator's _calculate_ner_confidence and by the detector, which reads
\* getattr(ent, 'confidence', 1.0).
C26_HeuristicConfidence ==
    conf_score # -1 =>
        /\ conf_score = StatedScore(conf_text)
        /\ EntConfidence(PlainSpan) = StatedScore(conf_text)

\* C23: the page list anonymize_texts returns is never the list object it was
\* handed, in any branch, the early return for no pages or no items included.
C23_NoAliasing ==
    call_status = "returned" => returned_pages_object # "textos_paginas"

\* C24: for non-empty pages and items, the mapping anonymize_texts returns has
\* exactly one entry per key of the item dictionary, in the order the items
\* were iterated, whether or not (and however often) a key occurs in the pages.
C24_MappingKeys ==
    (/\ call_status = "returned"
     /\ textos_paginas # <<>>
     /\ itens_sensiveis # <<>>)
        => Keys(mapeamento) = Keys(itens_sensiveis)

\* a returned call with two items, the first of which is nowhere in the page
C24_Witness ==
    /\ call_status = "returned"
    /\ textos_paginas # <<>>
    /\ Len(itens_sensiveis) = 2
    /\ ~ Contains(textos_paginas[1], itens_sensiveis[1][1])
    /\ Contains(textos_paginas[1], itens_sensiveis[2][1])
    /\ Len(mapeamento) = 2

\* no replacement value of the mapping contains one of its keys
NoValueHoldsKey(map) ==
    \A i, j \in 1..Len(map) : ~ Contains(map[i][2], map[j][1])

\* C27: in structure-preserving mode, after anonymize_texts no key of the
\* returned mapping occurs as a substring of a returned page, provided no
\* replacement value contains a key; occurrences next to word characters and
\* keys that begin or end with a non-word character included.
C27_CompleteSubstitution ==
    (/\ call_status = "returned"
     /\ rev_status = "none"
     /\ preserve_structure
     /\ NoValueHoldsKey(mapeamento))
        => \A p \in 1..Len(textos_anonimizados), i \in 1..Len(mapeamento) :
               ~ Contains(textos_anonimizados[p], mapeamento[i][1])

\* the replacement stands in the text directly against a word character, on
\* its left or on its right
AdjacentToWordChar(text, replacement) ==
    \E i \in 1..Len(text) :
        /\ SubAt(text, i, replacement)
        /\ \/ i > 1 /\ IsWordChar(text[i - 1])
           \/ /\ i + Len(replacement) <= Len(text)
              /\ IsWordChar(text[i + Len(replacement)])

\* C25: _perform_safe_replacement returns the substitution anchored at word
\* boundaries, except that it returns the raw substring replacement exactly
\* when the anchored result holds the replacement directly against a word
\* character, on its left or on its right.
C25_BoundaryFallback ==
    repl_status = "returned" =>
        LET anchored == ReSubFrom(repl_text, repl_original, repl_replacement, 1)
        IN  repl_result =
                IF AdjacentToWordChar(anchored, repl_replacement)
                THEN StrReplace(repl_text, repl_original, repl_replacement)
                ELSE anchored

\* the marked rewriting of page p of the last call
MarkedResult(p) ==
    RewriteMarked(MarkedPage(textos_paginas[p]), SortKeys(Keys(mapeamento)), mapeamento,
                  preserve_structure)

\* the marked rewriting yields the pages anonymize_texts returned
MarkedAgrees ==
    (call_status = "returned" /\ mapeamento # <<>> /\ rev_status = "none")
        => \A p \in 1..Len(textos_paginas) : MarkedResult(p).text = textos_anonimizados[p]

\* C28: while anonymize_texts rewrites a page key by key, the substitution of a
\* later key never changes characters of a replacement value inserted earlier
\* for another key: every replacement value stays intact where it was inserted.
C28_InsertedIntact ==
    (call_status = "returned" /\ mapeamento # <<>>)
        => \A p \in 1..Len(textos_paginas) : ~ MarkedResult(p).rewritten

\* the keys of the mapping that are still verbatim in some anonymized page
LeftVerbatim ==
    {i \in 1..Len(val_mapping) :
        \E p \in 1..Len(val_anonymized_texts) :
            Contains(val_anonymized_texts[p], val_mapping[i][1])}

\* C21: validate_anonymization returns (leftover data never makes it raise) with
\* integrity_check False and an error naming the key exactly when some key of the
\* mapping is still verbatim in some anonymized page; otherwise integrity_check
\* is True and there is no such error.
C21_IntegrityReport ==
    val_status = "returned" =>
        /\ validation_results.integrity_check = (LeftVerbatim = {})
        /\ \A i \in 1..Len(val_mapping) :
               (i \in LeftVerbatim)
                   <=> \E e \in 1..Len(validation_results.errors) :
                           validation_results.errors[e] = val_mapping[i][1]

CallbackNames ==
    {"_finalizar_anonimizacao", "_handle_error", "_update_validation_ui",
     "_finalizar_reversao"}

\* a thread is running and every button is disabled
SingleWorker ==
    /\ Cardinality(workers) <= 1
    /\ workers # {} => \A b \in Buttons : ~ buttons[b]

\* a step that starts a thread leaves every button disabled, and a step that
\* enables a button while all five are disabled is a callback queued by the
\* thread started last
BusyDiscipline ==
    /\ (workers' \ workers # {}) => \A b \in Buttons : ~ buttons'[b]
    /\ ((\A b \in Buttons : ~ buttons[b]) /\ (\E b \in Buttons : buttons'[b]))
           => /\ app_event' \in CallbackNames
              /\ after_queue # <<>>
              /\ Head(after_queue).thread = threads_started

\* C29: in PDFAnonymizerApp at most one background worker runs at any time;
\* every handler that starts a worker first disables all five buttons, and the
\* buttons are enabled again only by a completion or error callback that worker
\* queued for the main thread.
C29_SingleWorker == [](SingleWorker) /\ [][BusyDiscipline]_vars

\* a second worker runs, after the first one's callback enabled the buttons again
C29_Witness ==
    /\ \E w \in workers : w.id = 2
    /\ after_queue = <<>>

============================================================================
